---------------------------- MODULE Spec2Model ----------------------------
(***************************************************************************)
(* A model of pdfium::ReflowCjkParagraphs (src/pdfium/ReflowHelper.hpp):   *)
(* the CJK paragraph reflow of ZhoConverterQt.  Text is a sequence of      *)
(* bytes (0..255); a decoded line is a sequence of Unicode code points.    *)
(* Every helper keeps the name it has in namespace pdfium::detail.         *)
(***************************************************************************)
EXTENDS Integers, Sequences, FiniteSets, TLC

\* ---------------------------------------------------------------- bounds

\* The largest number of lines of an input text.
MaxLines == 3
\* The largest number of lines of each of two concurrently reflowed texts.
MaxConcLines == 2

\* ------------------------------------------------------- small utilities

Min(a, b) == IF a <= b THEN a ELSE b

SetMax(S) == CHOOSE x \in S : \A y \in S : y <= x

SetMin(S) == CHOOSE x \in S : \A y \in S : x <= y

\* The concatenation of the sequences of ss (by halves, so that the depth of
\* the evaluation grows with the logarithm of the length).
RECURSIVE Flatten(_)
Flatten(ss) ==
  IF Len(ss) = 0 THEN <<>>
  ELSE IF Len(ss) = 1 THEN ss[1]
  ELSE LET m == Len(ss) \div 2
       IN  Flatten(SubSeq(ss, 1, m)) \o Flatten(SubSeq(ss, m + 1, Len(ss)))

\* s.rfind(w, 0) == 0: s starts with w.
StartsWith(s, w) == Len(s) >= Len(w) /\ SubSeq(s, 1, Len(w)) = w

\* ------------------------------------------------- UTF-8 <-> UTF-32

\* One round of Utf8ToU32's loop at byte index p (1-based): the number of
\* bytes the round takes.  A lead byte takes its continuation bytes when
\* enough bytes are left.
Utf8ToU32Width(s, p) ==
  LET c == s[p]
      n == Len(s)
  IN  IF c < 128 THEN 1
      ELSE IF c \div 32 = 6 /\ p + 1 <= n THEN 2
      ELSE IF c \div 16 = 14 /\ p + 2 <= n THEN 3
      ELSE IF c \div 8 = 30 /\ p + 3 <= n THEN 4
      ELSE 1

\* The code point the round at byte index p pushes.  The bytes taken after
\* the lead byte are masked with 0x3F and are not checked to be continuation
\* bytes; a byte that starts no sequence gives U+FFFD.
Utf8ToU32At(s, p) ==
  LET c == s[p]
      n == Len(s)
  IN  IF c < 128 THEN c
      ELSE IF c \div 32 = 6 /\ p + 1 <= n
        THEN (c % 32) * 64 + (s[p + 1] % 64)
      ELSE IF c \div 16 = 14 /\ p + 2 <= n
        THEN (c % 16) * 4096 + (s[p + 1] % 64) * 64 + (s[p + 2] % 64)
      ELSE IF c \div 8 = 30 /\ p + 3 <= n
        THEN (c % 8) * 262144 + (s[p + 1] % 64) * 4096
             + (s[p + 2] % 64) * 64 + (s[p + 3] % 64)
      ELSE 65533

\* The rounds of the loop that start at a byte index in p..(e - 1), the
\* first of them at p: the code points pushed and the index the last round
\* leaves (evaluated by halves of the range).
RECURSIVE Utf8ToU32Range(_, _, _)
Utf8ToU32Range(s, p, e) ==
  IF p >= e THEN [out |-> <<>>, next |-> p]
  ELSE IF e - p = 1
    THEN [out |-> <<Utf8ToU32At(s, p)>>, next |-> p + Utf8ToU32Width(s, p)]
  ELSE LET mid   == (p + e) \div 2
           left  == Utf8ToU32Range(s, p, mid)
           right == Utf8ToU32Range(s, left.next, e)
       IN  [out |-> left.out \o right.out, next |-> right.next]

Utf8ToU32(s) == Utf8ToU32Range(s, 1, Len(s) + 1).out

\* The bytes U32ToUtf8 writes for one code point.
U32ToUtf8Char(c) ==
  IF c < 128 THEN <<c>>
  ELSE IF c < 2048 THEN <<192 + (c \div 64), 128 + (c % 64)>>
  ELSE IF c < 65536
    THEN <<224 + (c \div 4096), 128 + ((c \div 64) % 64), 128 + (c % 64)>>
  ELSE <<240 + (c \div 262144), 128 + ((c \div 4096) % 64),
         128 + ((c \div 64) % 64), 128 + (c % 64)>>

U32ToUtf8(s) == Flatten([i \in 1..Len(s) |-> U32ToUtf8Char(s[i])])

\* ------------------------------------------------------ tables / constants

\* U+3002 U+FF01 U+FF1F U+FF1B U+FF1A U+2026 U+2014 U+201D U+300D U+2019
\* U+300F U+FF09 U+3011 U+300B U+3017 U+3015 U+3009 U+FF3D U+FF5D . ! ? )
CJK_PUNCT_END ==
  {12290, 65281, 65311, 65307, 65306, 8230, 8212, 8221, 12301, 8217, 12303,
   65289, 12305, 12299, 12311, 12309, 12297, 65341, 65373, 46, 33, 63, 41}

\* U+201C U+2018 U+300C U+300E
DIALOG_OPENERS == {8220, 8216, 12300, 12302}

\* U+201D U+2019 U+300D U+300F
DIALOG_CLOSERS == {8221, 8217, 12301, 12303}

\* U+524D U+8A00, U+5E8F U+7AE0, U+7EC8 U+7AE0, U+5C3E U+58F0, U+540E U+8BB0,
\* U+756A U+5916, U+5C3E U+8072, U+5F8C U+8A18, U+6954 U+5B50
TITLE_WORDS ==
  {<<21069, 35328>>, <<24207, 31456>>, <<32456, 31456>>, <<23614, 22768>>,
   <<21518, 35760>>, <<30058, 22806>>, <<23614, 32882>>, <<24460, 35352>>,
   <<26964, 23376>>}

\* U+7AE0 U+8282 U+90E8 U+5377 U+7BC0 U+56DE
CHAPTER_MARKERS == {31456, 33410, 37096, 21367, 31680, 22238}

\* U+5206 U+5408
EXCLUDED_CHAPTER_MARKERS_PREFIX == {20998, 21512}

\* U+3011 U+300B U+3017 U+3015 U+3009 U+300D U+300F U+FF09 U+FF3D
CHAPTER_END_BRACKETS ==
  {12305, 12299, 12311, 12309, 12297, 12301, 12303, 65289, 65341}

SHORT_HEADING_MAX_LEN == 8

\* The 14 <<opener, closer>> pairs.
BRACKET_PAIRS ==
  {<<65288, 65289>>, <<40, 41>>, <<65339, 65341>>, <<91, 93>>,
   <<65371, 65373>>, <<123, 125>>, <<65308, 65310>>, <<60, 62>>,
   <<10216, 10217>>, <<12296, 12297>>, <<12304, 12305>>, <<12298, 12299>>,
   <<12308, 12309>>, <<12310, 12311>>}

is_bracket_opener(ch) == \E p \in BRACKET_PAIRS : p[1] = ch

is_bracket_closer(ch) == \E p \in BRACKET_PAIRS : p[2] = ch

is_matching_bracket(open, close) == <<open, close>> \in BRACKET_PAIRS

\* U+FF1A, ':', U+3000
METADATA_SEPARATORS == {65306, 58, 12288}

METADATA_KEYS ==
  {<<26360, 21517>>, <<20070, 21517>>, <<20316, 32773>>, <<35695, 32773>>,
   <<35793, 32773>>, <<26657, 35330>>, <<26657, 35746>>,
   <<20986, 29256, 31038>>, <<20986, 29256, 26178, 38291>>,
   <<20986, 29256, 26102, 38388>>, <<20986, 29256, 26085, 26399>>,
   <<29256, 27402>>, <<29256, 26435>>, <<29256, 27402, 38913>>,
   <<29256, 26435, 39029>>, <<29256, 27402, 20449, 24687>>,
   <<29256, 26435, 20449, 24687>>, <<36012, 20219, 32232, 36655>>,
   <<36131, 20219, 32534, 36753>>, <<32232, 36655>>, <<32534, 36753>>,
   <<36012, 32232>>, <<36131, 32534>>, <<23450, 20729>>, <<23450, 20215>>,
   <<31777, 20171>>, <<31616, 20171>>, <<21069, 35328>>, <<24207, 31456>>,
   <<32066, 31456>>, <<32456, 31456>>, <<23614, 32882>>, <<23614, 22768>>,
   <<24460, 35352>>, <<21518, 35760>>, <<21697, 29260, 26041>>,
   <<20986, 21697, 26041>>, <<25480, 27402, 26041>>, <<25480, 26435, 26041>>,
   <<38651, 23376, 29256, 27402>>, <<25968, 23383, 29256, 26435>>,
   <<25475, 25551>>, <<25195, 25551>>, <<79, 67, 82>>, <<67, 73, 80>>,
   <<22312, 29256, 32232, 30446>>, <<22312, 29256, 32534, 30446>>,
   <<20998, 39006, 34399>>, <<20998, 31867, 21495>>, <<20027, 38988, 35422>>,
   <<20027, 39064, 35789>>, <<39006, 22411>>, <<31867, 22411>>,
   <<31995, 21015>>, <<30332, 34892, 26085>>, <<21457, 34892, 26085>>,
   <<21021, 29256>>, <<73, 83, 66, 78>>}

\* ------------------------------------------------ small utility helpers

\* A variant that asks for "====" at the end.
IsPageMarker_four_at_end(s) ==
  /\ Len(s) >= 7
  /\ StartsWith(s, <<61, 61, 61, 32>>)
  /\ s[Len(s)] = 61 /\ s[Len(s) - 1] = 61 /\ s[Len(s) - 2] = 61
  /\ s[Len(s) - 3] = 61

\* IsPageMarker: size >= 7, starts with "=== " and ends with "===".
IsPageMarker(s) ==
  /\ Len(s) >= 7
  /\ StartsWith(s, <<61, 61, 61, 32>>)
  /\ s[Len(s)] = 61 /\ s[Len(s) - 1] = 61 /\ s[Len(s) - 2] = 61

\* RStrip drops trailing ' ', '\t', '\r'.
RStrip(s) ==
  LET keep == {i \in 1..Len(s) : s[i] \notin {32, 9, 13}}
  IN  IF keep = {} THEN <<>> ELSE SubSeq(s, 1, SetMax(keep))

\* LStrip drops leading ' ', '\t', U+3000.
LStrip(s) ==
  LET keep == {i \in 1..Len(s) : s[i] \notin {32, 9, 12288}}
  IN  IF keep = {} THEN <<>> ELSE SubSeq(s, SetMin(keep), Len(s))

Strip(s) == RStrip(LStrip(s))

IsAscii(ch) == ch <= 127

IsAllAscii(s) == \A i \in 1..Len(s) : IsAscii(s[i])

\* U+3400..U+4DBF, U+4E00..U+9FFF, U+F900..U+FAFF
IsCjk(ch) ==
  \/ (13312 <= ch /\ ch <= 19903)
  \/ (19968 <= ch /\ ch <= 40959)
  \/ (63744 <= ch /\ ch <= 64255)

IsAsciiDigit(ch) == 48 <= ch /\ ch <= 57

IsAsciiLetter(ch) == (65 <= ch /\ ch <= 90) \/ (97 <= ch /\ ch <= 122)

IsAsciiLetterOrDigit(ch) == IsAsciiDigit(ch) \/ IsAsciiLetter(ch)

\* U+FF10..U+FF19
IsFullwidthDigit(ch) == 65296 <= ch /\ ch <= 65305

\* ' ', '-', '/', ':', '.'
IsNeutralAsciiForMixed(ch) == ch \in {32, 45, 47, 58, 46}

IsWhitespace(ch) ==
  ch \in {32, 9, 10, 13, 12, 11,
          160, 5760, 8192, 8193, 8194, 8195, 8196, 8197, 8198, 8199, 8200,
          8201, 8202, 8239, 8287, 12288}

\* IsMixedCjkAscii's scan returns true at the first index by which a CJK
\* character and an ASCII letter or digit (or full-width digit) have both
\* been seen, unless a rejected character comes before: any other ASCII
\* character that is not neutral, any other non-ASCII character.
IsMixedCjkAscii(s) ==
  LET idx    == 1..Len(s)
      ascii  == {i \in idx : /\ ~IsNeutralAsciiForMixed(s[i])
                             /\ \/ (s[i] <= 127 /\ IsAsciiLetterOrDigit(s[i]))
                                \/ (s[i] > 127 /\ IsFullwidthDigit(s[i]))}
      cjk    == {i \in idx : s[i] > 127 /\ ~IsFullwidthDigit(s[i]) /\ IsCjk(s[i])}
      reject == {i \in idx : /\ ~IsNeutralAsciiForMixed(s[i])
                             /\ \/ (s[i] <= 127 /\ ~IsAsciiLetterOrDigit(s[i]))
                                \/ (/\ s[i] > 127 /\ ~IsFullwidthDigit(s[i])
                                    /\ ~IsCjk(s[i]))}
  IN  /\ ascii # {}
      /\ cjk # {}
      /\ \A r \in reject : r > SetMin(ascii) /\ r > SetMin(cjk)

IsMostlyCjk(s) ==
  LET counted == {i \in 1..Len(s) :
                    ~IsWhitespace(s[i]) /\ ~IsAsciiDigit(s[i])
                    /\ ~IsFullwidthDigit(s[i])}
      cjk   == Cardinality({i \in counted : IsCjk(s[i])})
      ascii == Cardinality({i \in counted : ~IsCjk(s[i]) /\ s[i] <= 127
                                            /\ IsAsciiLetter(s[i])})
  IN  cjk > 0 /\ cjk >= ascii

\* ------------------------------------------------------ repeat collapse

\* Token-level: a token of 4..200 code points that is one unit of 4..10 code
\* points repeated at least 3 times becomes that unit (smallest unit first).
CollapseRepeatedToken(token) ==
  LET length == Len(token)
      units  == {u \in 4..Min(10, length \div 3) :
                   /\ length % u = 0
                   /\ \A k \in 0..((length \div u) - 1) :
                        SubSeq(token, k * u + 1, k * u + u) = SubSeq(token, 1, u)}
  IN  IF length < 4 \/ length > 200 THEN token
      ELSE IF units = {} THEN token
      ELSE SubSeq(token, 1, SetMin(units))

\* The while (true) loop of CollapseRepeatedWordSequences: the number of
\* consecutive copies of the phrase parts[start .. start+phraseLen) (0-based).
RECURSIVE RepeatCount(_, _, _, _)
RepeatCount(parts, start, phraseLen, count) ==
  LET nextStart == start + count * phraseLen IN
  IF nextStart + phraseLen > Len(parts) THEN count
  ELSE IF SubSeq(parts, start + 1, start + phraseLen)
          = SubSeq(parts, nextStart + 1, nextStart + phraseLen)
    THEN RepeatCount(parts, start, phraseLen, count + 1)
  ELSE count

\* A phrase-level pass that collapses nothing.
CollapseRepeatedWordSequences_none(parts) == parts

\* Phrase-level: the first (leftmost start, then shortest phrase of 1..8
\* tokens) phrase repeated at least 3 times is replaced by one copy.
CollapseRepeatedWordSequences(parts) ==
  LET n     == Len(parts)
      cands == {c \in (0..(n - 1)) \X (1..8) :
                  /\ c[1] + c[2] <= n
                  /\ RepeatCount(parts, c[1], c[2], 1) >= 3}
      start == SetMin({c[1] : c \in cands})
      plen  == SetMin({c[2] : c \in {d \in cands : d[1] = start}})
      count == RepeatCount(parts, start, plen, 1)
  IN  IF n < 3 \/ cands = {} THEN parts
      ELSE SubSeq(parts, 1, start)
           \o SubSeq(parts, start + 1, start + plen)
           \o SubSeq(parts, start + count * plen + 1, n)

\* The tokens of a line: the maximal runs without ' ' and '\t'.
SplitTokens(line) ==
  LET n      == Len(line)
      idx    == [i \in 1..n |-> i]
      IsSep(i) == line[i] \in {32, 9}
      starts == SelectSeq(idx, LAMBDA i : ~IsSep(i) /\ (i = 1 \/ IsSep(i - 1)))
      ends   == SelectSeq(idx, LAMBDA i : ~IsSep(i) /\ (i = n \/ IsSep(i + 1)))
  IN  [j \in 1..Len(starts) |-> SubSeq(line, starts[j], ends[j])]

\* The collapsed tokens joined by single spaces.
JoinTokens(parts) ==
  Flatten([j \in 1..Len(parts) |->
             (IF j > 1 THEN <<32>> ELSE <<>>) \o CollapseRepeatedToken(parts[j])])

CollapseRepeatedSegments(line) ==
  LET parts == SplitTokens(line) IN
  IF line = <<>> THEN line
  ELSE IF parts = <<>> THEN line
  ELSE JoinTokens(CollapseRepeatedWordSequences(parts))

\* ---------------------------------------------------------- DialogState

\* The six counters, all 0: a fresh DialogState, and DialogState::reset().
DialogState_reset ==
  [double_quote |-> 0, single_quote |-> 0, corner |-> 0,
   corner_bold |-> 0, corner_top |-> 0, corner_wide |-> 0]

\* An opener: ++counter.
DialogState_open(d, f) == [d EXCEPT ![f] = @ + 1]

\* A closer that decrements whatever the counter holds.
DialogState_close_unguarded(d, f) == [d EXCEPT ![f] = @ - 1]

\* A closer: if (counter > 0) --counter.
DialogState_close(d, f) == IF d[f] > 0 THEN [d EXCEPT ![f] = @ - 1] ELSE d

\* One round of the switch in DialogState::update.
DialogState_update_char(d, ch) ==
  CASE ch = 8220  -> DialogState_open(d, "double_quote")
    [] ch = 8221  -> DialogState_close(d, "double_quote")
    [] ch = 8216  -> DialogState_open(d, "single_quote")
    [] ch = 8217  -> DialogState_close(d, "single_quote")
    [] ch = 12300 -> DialogState_open(d, "corner")
    [] ch = 12301 -> DialogState_close(d, "corner")
    [] ch = 12302 -> DialogState_open(d, "corner_bold")
    [] ch = 12303 -> DialogState_close(d, "corner_bold")
    [] ch = 65089 -> DialogState_open(d, "corner_top")
    [] ch = 65090 -> DialogState_close(d, "corner_top")
    [] ch = 65091 -> DialogState_open(d, "corner_wide")
    [] ch = 65092 -> DialogState_close(d, "corner_wide")
    [] OTHER      -> d

\* The loop of DialogState::update over s[lo..hi], in order (evaluated by
\* halves of the range).
RECURSIVE DialogState_update_range(_, _, _, _)
DialogState_update_range(d, s, lo, hi) ==
  IF lo > hi THEN d
  ELSE IF lo = hi THEN DialogState_update_char(d, s[lo])
  ELSE LET mid == (lo + hi) \div 2
       IN  DialogState_update_range(DialogState_update_range(d, s, lo, mid),
                                    s, mid + 1, hi)

DialogState_update(d, s) == DialogState_update_range(d, s, 1, Len(s))

DialogState_is_unclosed(d) ==
  \/ d.double_quote > 0 \/ d.single_quote > 0 \/ d.corner > 0
  \/ d.corner_bold > 0 \/ d.corner_top > 0 \/ d.corner_wide > 0

\* ------------------------------------------------------ line classifiers

IsMetadataLine(line) ==
  LET s    == Strip(line)
      seps == {i \in 1..Len(s) : s[i] \in METADATA_SEPARATORS}
      sep  == SetMin(seps)                     \* 1-based; sep_idx = sep - 1
      key  == Strip(SubSeq(s, 1, sep - 1))
      rest == {j \in (sep + 1)..Len(s) : s[j] \notin {32, 9, 12288}}
  IN  /\ s # <<>>
      /\ Len(s) <= 30
      /\ seps # {}
      /\ ~(sep - 1 = 0 \/ sep - 1 > 10)
      /\ key # <<>>
      /\ key \in METADATA_KEYS
      /\ rest # {}
      /\ s[SetMin(rest)] \notin DIALOG_OPENERS

IsTitleHeading(s_left) ==
  LET len == Len(s_left)
      dis == {i \in 1..Min(11, len) : s_left[i] = 31532}        \* U+7B2C
      di  == SetMin(dis)                                        \* 1-based
  IN  /\ len # 0 /\ len <= 50
      /\ \/ \E w \in TITLE_WORDS : StartsWith(s_left, w)
         \/ (StartsWith(s_left, <<30058, 22806>>) /\ len <= 2 + 15)
         \/ /\ dis # {}
            /\ \E j \in (di + 1)..Min(len, di + 6) :
                 /\ s_left[j] \in CHAPTER_MARKERS
                 /\ ~(j + 1 <= len /\ s_left[j + 1] \in EXCLUDED_CHAPTER_MARKERS_PREFIX)
                 /\ len - j <= 20

IsDialogStart(line) ==
  LET s == LStrip(line) IN s # <<>> /\ s[1] \in DIALOG_OPENERS

HasOpenBracketNoClose(s) ==
  /\ \E i \in 1..Len(s) : is_bracket_opener(s[i])
  /\ \A i \in 1..Len(s) : ~is_bracket_closer(s[i])

IsHeadingLike(raw) ==
  LET s    == Strip(raw)
      last == s[Len(s)]
      all_ascii == IsAllAscii(s)
      max_len == IF all_ascii \/ IsMixedCjkAscii(s)
                 THEN SHORT_HEADING_MAX_LEN * 2 ELSE SHORT_HEADING_MAX_LEN
      hasNonAscii    == \E i \in 1..Len(s) : s[i] > 127
      hasLetter      == \E i \in 1..Len(s) : IsAsciiLetter(s[i])
      allAsciiDigits == \A i \in 1..Len(s) : IsAsciiDigit(s[i])
      wrapped == /\ Len(s) >= 2
                 /\ is_matching_bracket(s[1], last)
                 /\ LET inner == Strip(SubSeq(s, 2, Len(s) - 1))
                    IN  inner # <<>> /\ IsMostlyCjk(inner)
  IN  IF s = <<>> THEN FALSE
      ELSE IF IsPageMarker(s) THEN FALSE
      ELSE IF last \in CJK_PUNCT_END THEN FALSE
      ELSE IF HasOpenBracketNoClose(s) THEN FALSE
      ELSE IF wrapped THEN TRUE
      ELSE IF Len(s) > max_len THEN FALSE
      ELSE IF allAsciiDigits THEN TRUE
      ELSE IF hasNonAscii /\ last # 65292 /\ last # 44 THEN TRUE
      ELSE all_ascii /\ hasLetter

\* At least 2 leading ' ', '\t' or U+3000.
IsIndented(raw_line) ==
  /\ Len(raw_line) >= 2
  /\ raw_line[1] \in {32, 9, 12288}
  /\ raw_line[2] \in {32, 9, 12288}

IsChapterEnding(s) ==
  LET keep == {i \in 1..Len(s) : s[i] \notin CHAPTER_END_BRACKETS}
  IN  /\ Len(s) <= 15
      /\ keep # {}
      /\ s[SetMax(keep)] \in CHAPTER_MARKERS

IsBoxDrawingLine(s) ==
  LET is_ws(ch) == ch \in {32, 9, 10, 13, 12288}
      sig == {i \in 1..Len(s) : ~is_ws(s[i])}
  IN  /\ sig # {}
      /\ \A i \in sig :
           \/ (9472 <= s[i] /\ s[i] <= 9599)              \* U+2500..U+257F
           \/ s[i] \in {45, 61, 95, 126, 65374}           \* - = _ ~ U+FF5E
           \/ s[i] \in {42, 65290, 9733, 9734}            \* * U+FF0A U+2605 U+2606
      /\ Cardinality(sig) >= 3

\* ------------------------------------------------- core reflow: the steps

\* allSpace: every byte of the input is ' ', '\t', '\r' or '\n'.
AllSpace(utf8Text) ==
  \A i \in 1..Len(utf8Text) : utf8Text[i] \in {32, 9, 13, 10}

\* Normalize line endings: a CR followed by LF is skipped, a lone CR
\* becomes LF.  (-1 marks a skipped byte.)
NormalizeLineEndings(utf8Text) ==
  LET n      == Len(utf8Text)
      marked == [i \in 1..n |->
                   IF utf8Text[i] # 13 THEN utf8Text[i]
                   ELSE IF i + 1 <= n /\ utf8Text[i + 1] = 10 THEN -1
                   ELSE 10]
  IN  SelectSeq(marked, LAMBDA b : b # -1)

\* Split at every '\n' (the last line is pushed too) and decode each line.
SplitLines(norm) ==
  LET n  == Len(norm)
      nl == SelectSeq([i \in 1..n |-> i], LAMBDA i : norm[i] = 10)
      k  == Len(nl)
  IN  [j \in 1..(k + 1) |->
         Utf8ToU32(SubSeq(norm,
                          IF j = 1 THEN 1 ELSE nl[j - 1] + 1,
                          IF j = k + 1 THEN n ELSE nl[j] - 1))]

\* The loop's state: segments, buffer, dialog_state, and (for reading the
\* runs) the rule that handled the last line.
LoopStart ==
  [segments |-> <<>>, buffer |-> <<>>, dialog_state |-> DialogState_reset,
   rule |-> "none"]

\* A flush that pushes the buffer but leaves it pending: the next line would
\* be appended to text already emitted.
flush_buffer_keeps_pending(st) ==
  IF st.buffer # <<>>
  THEN [st EXCEPT !.segments = Append(@, st.buffer)]
  ELSE st

\* A flush that clears the buffer without pushing it: the paragraph is lost.
flush_buffer_drops(st) ==
  IF st.buffer # <<>>
  THEN [st EXCEPT !.buffer = <<>>, !.dialog_state = DialogState_reset]
  ELSE st

\* A flush that pushes and clears the buffer but keeps the counters: quotes
\* opened in the flushed paragraph stay open for the next one.
flush_buffer_keeps_state(st) ==
  IF st.buffer # <<>>
  THEN [st EXCEPT !.segments = Append(@, st.buffer), !.buffer = <<>>]
  ELSE st

\* The lambda flush_buffer.
flush_buffer(st) ==
  IF st.buffer # <<>>
  THEN [st EXCEPT !.segments = Append(@, st.buffer),
                  !.buffer = <<>>,
                  !.dialog_state = DialogState_reset]
  ELSE st

\* segments.push_back(seg)
push_back(st, seg) == [st EXCEPT !.segments = Append(@, seg)]

\* buffer = stripped; dialog_state.reset(); dialog_state.update(stripped);
new_paragraph(st, stripped) ==
  [st EXCEPT !.buffer = stripped,
             !.dialog_state = DialogState_update(DialogState_reset, stripped)]

\* A paragraph start without the flush: the line joins the paragraph the
\* rule was to end.
flush_and_start_appends(st, stripped) ==
  [st EXCEPT !.buffer = @ \o stripped,
             !.dialog_state = DialogState_update(@, stripped)]

\* flush_buffer(); buffer = stripped; dialog_state.update(stripped);
flush_and_start(st, stripped) ==
  LET f == flush_buffer(st) IN
  [f EXCEPT !.buffer = stripped,
            !.dialog_state = DialogState_update(@, stripped)]

\* A merge that joins the two lines with a space, as a reflow of
\* space-separated text would: the paragraph holds text no line held.
merge_line_spaced(st, stripped) ==
  [st EXCEPT !.buffer = @ \o <<32>> \o stripped,
             !.dialog_state = DialogState_update(@, stripped)]

\* buffer += stripped; dialog_state.update(stripped);
merge_line(st, stripped) ==
  [st EXCEPT !.buffer = @ \o stripped,
             !.dialog_state = DialogState_update(@, stripped)]

\* U+FF0C, ',', U+3001
IsCommaLike(ch) == ch \in {65292, 44, 12289}

\* One round of the for loop over lines32, given the value of
\* is_short_heading: the rules in the order of the code, the first that
\* applies ends the round.
ProcessLineRules(st, raw_line32, addPdfPageHeader, is_short_heading) ==
  LET stripped      == CollapseRepeatedSegments(RStrip(raw_line32))
      stripped_left == LStrip(stripped)
      buffer        == st.buffer
      bt            == RStrip(buffer)
      last          == IF bt = <<>> THEN 0 ELSE bt[Len(bt)]
      current_is_dialog_start == IsDialogStart(stripped)
      Rule(s, r)    == [s EXCEPT !.rule = r]
  IN
  \* 1) empty line
  IF stripped = <<>> THEN
    IF ~addPdfPageHeader /\ buffer # <<>>
       /\ buffer[Len(buffer)] \notin CJK_PUNCT_END
    THEN Rule(st, "empty_skip")
    ELSE Rule(flush_buffer(st), "empty_flush")
  \* 2) visual divider
  ELSE IF IsBoxDrawingLine(stripped_left) THEN
    Rule(flush_buffer(push_back(flush_buffer(st), stripped_left)), "divider")
  \* 2) page marker, 3) title heading, 3a) metadata line
  ELSE IF IsPageMarker(stripped) THEN
    Rule(push_back(flush_buffer(st), stripped), "page_marker")
  ELSE IF IsTitleHeading(stripped_left) THEN
    Rule(push_back(flush_buffer(st), stripped), "title")
  ELSE IF IsMetadataLine(stripped_left) THEN
    Rule(push_back(flush_buffer(st), stripped), "metadata")
  \* 3b) weak heading-like: no buffer, a buffer of blanks only (pushed
  \*     without a flush), or a buffer that does not end with a comma
  ELSE IF is_short_heading /\ buffer = <<>> THEN
    Rule(push_back(st, stripped), "heading")
  ELSE IF is_short_heading /\ bt = <<>> THEN
    Rule(push_back(st, stripped), "heading_blank_buffer")
  ELSE IF is_short_heading /\ ~IsCommaLike(last) THEN
    Rule(push_back(flush_buffer(st), stripped), "heading")
  \* 4) first line of a new paragraph
  ELSE IF buffer = <<>> THEN
    Rule(new_paragraph(st, stripped), "first_line")
  \* the buffer is not empty from here on: a dialog start flushes unless
  \* the buffer ends with a comma
  ELSE IF ~IsCommaLike(last) /\ current_is_dialog_start THEN
    Rule(new_paragraph(flush_buffer(st), stripped), "dialog_start")
  \* colon + dialog continuation
  ELSE IF /\ buffer[Len(buffer)] \in {65306, 58}
          /\ stripped_left # <<>>
          /\ stripped_left[1] \in DIALOG_OPENERS THEN
    Rule(merge_line(st, stripped), "colon_dialog")
  \* 5) buffer ends with CJK punctuation, not inside an unclosed dialog
  ELSE IF /\ buffer[Len(buffer)] \in CJK_PUNCT_END
          /\ ~DialogState_is_unclosed(st.dialog_state) THEN
    Rule(flush_and_start(st, stripped), "punct_end")
  \* 7) indentation
  ELSE IF IsIndented(raw_line32) THEN
    Rule(flush_and_start(st, stripped), "indent")
  \* 8) chapter-like ending of the buffer
  ELSE IF IsChapterEnding(buffer) THEN
    Rule(flush_and_start(st, stripped), "chapter_ending")
  \* 9) default: merge
  ELSE Rule(merge_line(st, stripped), "merge")

\* One round of the loop: is_short_heading = IsHeadingLike(stripped).
ProcessLine(st, raw_line32, addPdfPageHeader) ==
  ProcessLineRules(st, raw_line32, addPdfPageHeader,
                   IsHeadingLike(CollapseRepeatedSegments(RStrip(raw_line32))))

\* After the loop: the last buffer is pushed (and not cleared).
FlushLast(st) ==
  IF st.buffer # <<>> THEN push_back(st, st.buffer) ELSE st

\* The join: one '\n' between segments when compact, two otherwise.
JoinSegments(segs, compact) ==
  Flatten([i \in 1..Len(segs) |->
             (IF i > 1 THEN (IF compact THEN <<10>> ELSE <<10, 10>>) ELSE <<>>)
             \o segs[i]])

\* The whole call as a function of its arguments: the segments after the
\* loop and the last flush, and the returned bytes.
RECURSIVE RunLoop(_, _, _, _)
RunLoop(st, lines, i, addPdfPageHeader) ==
  IF i > Len(lines) THEN st
  ELSE RunLoop(ProcessLine(st, lines[i], addPdfPageHeader), lines, i + 1,
               addPdfPageHeader)

ReflowSegments(utf8Text, addPdfPageHeader) ==
  FlushLast(RunLoop(LoopStart, SplitLines(NormalizeLineEndings(utf8Text)), 1,
                    addPdfPageHeader)).segments

ReflowCjkParagraphs(utf8Text, addPdfPageHeader, compact) ==
  IF AllSpace(utf8Text) THEN utf8Text
  ELSE U32ToUtf8(JoinSegments(ReflowSegments(utf8Text, addPdfPageHeader),
                              compact))

\* ---------------------------------------------------------------- inputs

\* The lines the input texts are made of, as code points.
LinePool32 ==
  { <<>>,                                   \* the empty line
    <<12288>>,                              \* U+3000 alone
    <<12288, 45, 45, 45>>,                  \* U+3000 and "---": a divider
    <<61, 61, 61, 32, 49, 32, 61, 61, 61>>, \* "=== 1 ===": a page marker
    <<31532, 19968, 31456>>,                \* U+7B2C U+4E00 U+7AE0: a title
    <<20316, 32773, 65306, 30002>>,         \* U+4F5C U+8005 U+FF1A U+7532: metadata
    \* U+300C and 8 ideographs: long prose that leaves a corner quote open
    <<12300, 22825, 27668, 24456, 22909, 25105, 20204, 20986, 21435>>,
    <<29609, 12301, 12301>>,                \* U+73A9 U+300D U+300D: a closer, a stray closer
    <<61, 61, 61, 32, 30002, 65292>>,       \* "=== " U+7532 U+FF0C: prose ending with a comma
    <<20057, 32, 61, 61, 61>>,              \* U+4E59 " ===": a short heading-like line
    \* indented "A,B A,B A, A, A," (A = U+7532, B = U+4E59, the comma
    \* U+FF0C): the repeated last word collapses, leaving "A,B A,B A,"
    <<32, 32, 30002, 65292, 20057, 32, 30002, 65292, 20057, 32,
      30002, 65292, 32, 30002, 65292, 32, 30002, 65292>> }

\* The lines as bytes, and one line that is not well-formed UTF-8: the lead
\* byte 0xC0 followed by 'J'.
LinePool == {U32ToUtf8(l) : l \in LinePool32} \cup {<<192, 74>>}

\* The lines of the two texts reflowed concurrently.
ConcLinePool ==
  { U32ToUtf8(<<12300, 22825, 27668, 24456, 22909, 25105, 20204, 20986, 21435>>),
    U32ToUtf8(<<29609, 12301, 12301>>) }

SeqsUpTo(S, n) == UNION {[1..k -> S] : k \in 0..n}

\* The lines joined by '\n'.
JoinLines(ls) ==
  Flatten([i \in 1..Len(ls) |-> (IF i > 1 THEN <<10>> ELSE <<>>) \o ls[i]])

Texts == {JoinLines(ls) : ls \in SeqsUpTo(LinePool, MaxLines)}

ConcTexts == {JoinLines(ls) : ls \in SeqsUpTo(ConcLinePool, MaxConcLines)}

\* ----------------------------------------------------------------- state

VARIABLES
  utf8Text,          \* per call: the argument utf8Text (bytes)
  addPdfPageHeader,  \* per call: the argument addPdfPageHeader
  compact,           \* per call: the argument compact
  pc,                \* per call: "call", "loop" or "done"
  lines32,           \* per call: the decoded lines
  line_no,           \* per call: the index of the next line of lines32
  segments,          \* per frame: the local segments
  buffer,            \* per frame: the local buffer
  dialog_state,      \* per frame: the local dialog_state
  rule,              \* per frame: the rule that handled the last line
  result,            \* per call: the returned bytes
  hasUnclosedBracket, \* the frame of a call of text::punct::HasUnclosedBracket
  pdfExtraction,     \* MainWindow's PDF extraction: m_pdfWorker and its thread
  batch              \* MainWindow's batch conversion: m_batchWorker and its thread

\* The state outside ReflowCjkParagraphs.
otherVars == <<hasUnclosedBracket, pdfExtraction, batch>>

vars == <<utf8Text, addPdfPageHeader, compact, pc, lines32, line_no,
          segments, buffer, dialog_state, rule, result, otherVars>>

\* No call of HasUnclosedBracket is in progress.
NotScanning == [pc |-> "idle"]

\* MainWindow has no PDF worker: m_pdfWorker is null.
NoPdfExtraction == [pc |-> "idle", m_pdfWorker |-> FALSE]

\* MainWindow has no batch worker: m_batchWorker is null.
NoBatch == [pc |-> "idle", m_batchWorker |-> FALSE]

\* The calls in progress.
Calls == DOMAIN pc

\* Locals with static storage duration: every call uses the one frame.
FrameStatic(p) == 1

\* The locals of a call live in the call's own frame.
Frame(p) == p

InitCalls(C, T) ==
  /\ utf8Text \in [C -> T]
  /\ addPdfPageHeader \in [C -> BOOLEAN]
  /\ compact \in [C -> BOOLEAN]
  /\ pc = [p \in C |-> "call"]
  /\ lines32 = [p \in C |-> <<>>]
  /\ line_no = [p \in C |-> 0]
  /\ segments = [p \in C |-> <<>>]
  /\ buffer = [p \in C |-> <<>>]
  /\ dialog_state = [p \in C |-> DialogState_reset]
  /\ rule = [p \in C |-> "none"]
  /\ result = [p \in C |-> <<>>]
  /\ hasUnclosedBracket = NotScanning
  /\ pdfExtraction = NoPdfExtraction
  /\ batch = NoBatch

\* One call.
Init == InitCalls({1}, Texts)

\* Two calls on independent inputs.
InitConc == InitCalls({1, 2}, ConcTexts)

\* The loop state of call p, read from its frame.
LoopState(p) ==
  [segments |-> segments[Frame(p)], buffer |-> buffer[Frame(p)],
   dialog_state |-> dialog_state[Frame(p)], rule |-> rule[Frame(p)]]

SetLoopState(p, st) ==
  /\ segments' = [segments EXCEPT ![Frame(p)] = st.segments]
  /\ buffer' = [buffer EXCEPT ![Frame(p)] = st.buffer]
  /\ dialog_state' = [dialog_state EXCEPT ![Frame(p)] = st.dialog_state]
  /\ rule' = [rule EXCEPT ![Frame(p)] = st.rule]

\* The call begins: all-whitespace text is returned as it is; any other
\* text is normalized, split and decoded, and the locals are constructed.
Enter(p) ==
  /\ pc[p] = "call"
  /\ IF AllSpace(utf8Text[p])
     THEN /\ result' = [result EXCEPT ![p] = utf8Text[p]]
          /\ pc' = [pc EXCEPT ![p] = "done"]
          /\ UNCHANGED <<lines32, line_no, segments, buffer, dialog_state, rule>>
     ELSE /\ lines32' = [lines32 EXCEPT ![p] =
                           SplitLines(NormalizeLineEndings(utf8Text[p]))]
          /\ line_no' = [line_no EXCEPT ![p] = 1]
          /\ SetLoopState(p, LoopStart)
          /\ pc' = [pc EXCEPT ![p] = "loop"]
          /\ UNCHANGED result
  /\ UNCHANGED <<utf8Text, addPdfPageHeader, compact, otherVars>>

\* One round of the loop over lines32.
ProcessNextLine(p) ==
  /\ pc[p] = "loop"
  /\ line_no[p] <= Len(lines32[p])
  /\ SetLoopState(p, ProcessLine(LoopState(p), lines32[p][line_no[p]],
                                 addPdfPageHeader[p]))
  /\ line_no' = [line_no EXCEPT ![p] = @ + 1]
  /\ UNCHANGED <<utf8Text, addPdfPageHeader, compact, pc, lines32, result,
                 otherVars>>

\* After the last line: the last flush, the join, the encoding, the return.
Finish(p) ==
  /\ pc[p] = "loop"
  /\ line_no[p] > Len(lines32[p])
  /\ SetLoopState(p, FlushLast(LoopState(p)))
  /\ result' = [result EXCEPT ![p] =
                  U32ToUtf8(JoinSegments(FlushLast(LoopState(p)).segments,
                                         compact[p]))]
  /\ pc' = [pc EXCEPT ![p] = "done"]
  /\ UNCHANGED <<utf8Text, addPdfPageHeader, compact, lines32, line_no,
                 otherVars>>

Next ==
  \/ \E p \in Calls : Enter(p)
  \/ \E p \in Calls : ProcessNextLine(p)
  \/ \E p \in Calls : Finish(p)

Spec == Init /\ [][Next]_vars

SpecConc == InitConc /\ [][Next]_vars

\* ------------------------------------------------------------ properties

\* The line call p reads next, right-stripped and collapsed (the code's
\* stripped), and the same without its leading blanks (the code's probe).
NextStripped(p) == CollapseRepeatedSegments(RStrip(lines32[p][line_no[p]]))

NextProbe(p) == LStrip(NextStripped(p))

\* This step is one round of call p's loop.
StepsLine(p) ==
  /\ pc[p] = "loop"
  /\ line_no[p] <= Len(lines32[p])
  /\ line_no'[p] = line_no[p] + 1

\* The line call p reads next is a page marker, a title heading or a
\* metadata line.
NextIsStructural(p) ==
  \/ IsPageMarker(NextStripped(p))
  \/ IsTitleHeading(NextProbe(p))
  \/ IsMetadataLine(NextProbe(p))

\* The line call p reads next is prose: not empty, not a divider, not
\* structural.
NextIsProse(p) ==
  /\ NextStripped(p) # <<>>
  /\ ~IsBoxDrawingLine(NextProbe(p))
  /\ ~NextIsStructural(p)

IsPrefix(s, t) == Len(s) <= Len(t) /\ SubSeq(t, 1, Len(s)) = s

\* C1: a line that is a page marker, a title heading or a metadata line
\* becomes a segment of its own whatever the buffer and the dialog state
\* are: the pending buffer (if any) is pushed before it, the line is pushed
\* as it is, nothing stays pending, and no later step changes a segment
\* already pushed.
C1_StructuralLineOwnSegment ==
  [][\A p \in Calls :
       /\ (StepsLine(p) /\ NextIsStructural(p)) =>
            /\ segments'[p] =
                 (IF buffer[p] = <<>> THEN segments[p]
                  ELSE Append(segments[p], buffer[p]))
                 \o <<NextStripped(p)>>
            /\ buffer'[p] = <<>>
       /\ pc[p] = "loop" => IsPrefix(segments[p], segments'[p])]_vars

\* A finished call whose three lines are prose that leaves a quote open, a
\* title heading, and a third line: three segments, the lines themselves.
C1_Witness ==
  \E p \in Calls :
    /\ pc[p] = "done"
    /\ Len(lines32[p]) = 3
    /\ DialogState_is_unclosed(DialogState_update(DialogState_reset,
                                                  lines32[p][1]))
    /\ IsTitleHeading(lines32[p][2])
    /\ lines32[p][3] # <<>>
    /\ segments[p] = lines32[p]

\* C2: while the dialog state of the buffer is unclosed, a round of the loop
\* that reads a prose line flushes nothing: the segments stay as they are
\* and the line is appended to the buffer.
C2_NoFlushWhileUnclosed ==
  [][\A p \in Calls :
       (/\ StepsLine(p)
        /\ buffer[p] # <<>>
        /\ DialogState_is_unclosed(dialog_state[p])
        /\ NextIsProse(p)) =>
         /\ segments'[p] = segments[p]
         /\ buffer'[p] = buffer[p] \o NextStripped(p)]_vars

\* A sequence of code points without its whitespace (IsWhitespace).
NoWhitespace(s) == SelectSeq(s, LAMBDA ch : ~IsWhitespace(ch))

\* The lines of call p's input, as the call split and decoded them.
InputLines(p) == lines32[p]

\* Each input line right-stripped and collapsed.
CollapsedLines(p) ==
  [i \in 1..Len(InputLines(p)) |->
     CollapseRepeatedSegments(RStrip(InputLines(p)[i]))]

\* C3: nothing is dropped, duplicated or reordered: for an input that is not
\* all-whitespace, the returned text without whitespace is the concatenation,
\* in input order, of the collapsed lines without whitespace.
C3_NoTextLostOrReordered ==
  \A p \in Calls :
    (pc[p] = "done" /\ ~AllSpace(utf8Text[p])) =>
      NoWhitespace(Utf8ToU32(result[p]))
        = NoWhitespace(Flatten(CollapsedLines(p)))

\* A finished call on three non-empty lines, one of which the collapse
\* shortens, that returned two segments: a flush and a merge took place.
C3_Witness ==
  \E p \in Calls :
    /\ pc[p] = "done"
    /\ Len(InputLines(p)) = 3
    /\ \A i \in 1..3 : CollapsedLines(p)[i] # <<>>
    /\ \E i \in 1..3 : CollapsedLines(p)[i] # RStrip(InputLines(p)[i])
    /\ Len(segments[p]) = 2

\* The input is the UTF-8 encoding of whitespace characters only.
WhitespaceOnly(text) ==
  /\ U32ToUtf8(Utf8ToU32(text)) = text
  /\ \A i \in 1..Len(Utf8ToU32(text)) : IsWhitespace(Utf8ToU32(text)[i])

\* C4: an input of whitespace characters only is returned byte for byte.
C4_WhitespaceReturnedUnchanged ==
  \A p \in Calls :
    (pc[p] = "done" /\ WhitespaceOnly(utf8Text[p])) =>
      result[p] = utf8Text[p]

\* C5: each of the six counters of every DialogState is at least 0.
C5_CountersNonNegative ==
  \A f \in DOMAIN dialog_state :
    \A c \in DOMAIN dialog_state[f] : dialog_state[f][c] >= 0

\* A buffer that holds more U+300D closers than U+300C openers has been
\* run through update, and the corner counter is 0.
C5_Witness ==
  \E p \in Calls :
    /\ pc[p] = "loop"
    /\ Cardinality({i \in 1..Len(buffer[p]) : buffer[p][i] = 12301})
         > Cardinality({i \in 1..Len(buffer[p]) : buffer[p][i] = 12300})
    /\ dialog_state[p].corner = 0

\* A byte string with every '\n' doubled.
WidenNewlines(s) ==
  Flatten([i \in 1..Len(s) |-> IF s[i] = 10 THEN <<10, 10>> ELSE <<s[i]>>])

\* C6: compact does not influence the segmentation: for an input that is not
\* all-whitespace the segments are those of the call with the other value of
\* compact, and the non-compact output is the compact output with each '\n'
\* doubled.
C6_CompactOnlyWidensSeparators ==
  \A p \in Calls :
    (pc[p] = "done" /\ ~AllSpace(utf8Text[p])) =>
      LET other == ReflowCjkParagraphs(utf8Text[p], addPdfPageHeader[p],
                                       ~compact[p])
      IN  /\ segments[p] = ReflowSegments(utf8Text[p], addPdfPageHeader[p])
          /\ IF compact[p] THEN other = WidenNewlines(result[p])
             ELSE result[p] = WidenNewlines(other)

\* No line of call p's input is empty after right-stripping.
NoLineEmpty(p) ==
  \A i \in 1..Len(InputLines(p)) : RStrip(InputLines(p)[i]) # <<>>

\* The other value of addPdfPageHeader gives the same output when no line
\* is empty after right-stripping.
HeaderFlagOnlyForEmptyLines(p) ==
  NoLineEmpty(p) =>
    result[p] = ReflowCjkParagraphs(utf8Text[p], ~addPdfPageHeader[p],
                                    compact[p])

\* The concatenations of consecutive collapsed lines of call p's input.
MergedLines(p) ==
  {Flatten(SubSeq(CollapsedLines(p), i, j)) :
     i \in 1..Len(InputLines(p)), j \in 1..Len(InputLines(p))}

C8_OneSeparatorBetweenSegments ==
  \A p \in Calls :
    (pc[p] = "done" /\ ~AllSpace(utf8Text[p])) =>
      LET out == result[p]
          n   == Len(out)
      IN  /\ \A k \in 1..Len(segments[p]) :
               /\ segments[p][k] # <<>>
               /\ \A i \in 1..Len(segments[p][k]) : segments[p][k][i] # 10
          /\ n > 0 /\ out[1] # 10 /\ out[n] # 10
          /\ compact[p] =>
               \A i \in 1..(n - 1) : ~(out[i] = 10 /\ out[i + 1] = 10)
          /\ ~compact[p] =>
               \A i \in 1..(n - 2) :
                 ~(out[i] = 10 /\ out[i + 1] = 10 /\ out[i + 2] = 10)

\* C9: each of two calls interleaved at line granularity returns what the
\* call returns alone, that is, what the function of its own arguments gives.
C9_InterleavedCallsIndependent ==
  \A p \in Calls :
    pc[p] = "done" =>
      result[p] = ReflowCjkParagraphs(utf8Text[p], addPdfPageHeader[p],
                                      compact[p])

\* One call has returned two segments while the other, on another text, is
\* in the middle of its loop with a pending buffer that leaves a quote open.
C9_Witness ==
  \E p \in Calls : \E q \in Calls :
    /\ p # q
    /\ utf8Text[p] # utf8Text[q]
    /\ pc[p] = "done"
    /\ Len(segments[p]) = 2
    /\ pc[q] = "loop"
    /\ line_no[q] = 2
    /\ line_no[q] <= Len(lines32[q])
    /\ DialogState_is_unclosed(dialog_state[q])

\* No dialog quote and no bracket among the code points of s.
NoQuotesOrBrackets(s) ==
  \A i \in 1..Len(s) :
    /\ s[i] \notin DIALOG_OPENERS \cup DIALOG_CLOSERS
    /\ ~is_bracket_opener(s[i])
    /\ ~is_bracket_closer(s[i])

\* C10: a compact output that is a single line and holds no dialog quote and
\* no bracket is a fixed point: reflowing it, with either header flag and
\* compact set, returns it.
C10_ReflowedProseIsFixedPoint ==
  \A p \in Calls :
    (/\ pc[p] = "done"
     /\ compact[p]
     /\ Len(segments[p]) = 1
     /\ \A i \in 1..Len(result[p]) : result[p][i] # 10
     /\ NoQuotesOrBrackets(Utf8ToU32(result[p]))) =>
      \A h \in BOOLEAN : ReflowCjkParagraphs(result[p], h, TRUE) = result[p]


\* ------------------------------------- totality: edge lines and raw bytes

MaxEdgeLines == 2

MaxBytes == 4

\* Lines at the edges of the classifiers' index arithmetic.
EdgeLinePool32 ==
  { <<>>,                                   \* the empty line
    <<12288>>,                              \* U+3000: not empty, empty probe
    <<31532>>,                              \* U+7B2C alone: len - 1 = 0
    <<31532, 31456>>,                       \* U+7B2C U+7AE0: the marker is the last character
    <<31532, 31456, 20998>>,                \* ... followed by the excluded U+5206
    <<61, 61, 61, 32, 49, 61, 61>>,         \* "=== 1==": 7 characters
    <<65306>>,                              \* a separator at index 0
    <<20316, 32773, 65306>>,                \* U+4F5C U+8005 U+FF1A: a key and no value
    <<12300>>,                              \* an opener that is never closed
    <<12301>>,                              \* a closer that was never opened
    <<65288, 30002>>,                       \* U+FF08 U+7532: an unbalanced bracket
    <<123, 30002>>,                         \* "{" U+7532: an unbalanced brace
    <<30002, 65292>>,                       \* U+7532 U+FF0C: prose ending with a comma
    \* 9 ideographs, and the same wrapped in "[" and "]"
    <<30002, 30002, 30002, 30002, 30002, 30002, 30002, 30002, 30002>>,
    <<91, 30002, 30002, 30002, 30002, 30002, 30002, 30002, 30002, 30002, 93>>,
    \* U+7B2C at index 10, the marker U+7AE0 at index di + 1 + 5 = len - 1
    <<30002, 30002, 30002, 30002, 30002, 30002, 30002, 30002, 30002, 30002,
      31532, 30002, 30002, 30002, 30002, 30002, 31456>> }

EdgeTexts ==
  {JoinLines(ls) :
     ls \in SeqsUpTo({U32ToUtf8(l) : l \in EdgeLinePool32}, MaxEdgeLines)}

\* Bytes of every kind the decoder tells apart: 'J', two continuation bytes
\* (0x90, 0xB8), and the lead bytes of a 2-, 3- and 4-byte sequence (0xC3,
\* 0xE4, 0xF0).
ByteAlphabet == {74, 144, 184, 195, 228, 240}

\* Every byte string over the alphabet of up to MaxBytes bytes.
ByteTexts == SeqsUpTo(ByteAlphabet, MaxBytes)

\* Before the call: the caller has not chosen the arguments yet.
InitTotal ==
  /\ utf8Text = [p \in {1} |-> <<>>]
  /\ addPdfPageHeader = [p \in {1} |-> FALSE]
  /\ compact = [p \in {1} |-> FALSE]
  /\ pc = [p \in {1} |-> "idle"]
  /\ lines32 = [p \in {1} |-> <<>>]
  /\ line_no = [p \in {1} |-> 0]
  /\ segments = [p \in {1} |-> <<>>]
  /\ buffer = [p \in {1} |-> <<>>]
  /\ dialog_state = [p \in {1} |-> DialogState_reset]
  /\ rule = [p \in {1} |-> "none"]
  /\ result = [p \in {1} |-> <<>>]
  /\ hasUnclosedBracket = NotScanning
  /\ pdfExtraction = NoPdfExtraction
  /\ batch = NoBatch

\* The caller calls ReflowCjkParagraphs on an edge text or on a raw byte
\* string, with any flags.
Call(p) ==
  /\ pc[p] = "idle"
  /\ \E t \in EdgeTexts \cup ByteTexts, h \in BOOLEAN, c \in BOOLEAN :
       /\ utf8Text' = [utf8Text EXCEPT ![p] = t]
       /\ addPdfPageHeader' = [addPdfPageHeader EXCEPT ![p] = h]
       /\ compact' = [compact EXCEPT ![p] = c]
  /\ pc' = [pc EXCEPT ![p] = "call"]
  /\ UNCHANGED <<lines32, line_no, segments, buffer, dialog_state, rule, result,
                 otherVars>>

NextTotal ==
  \/ \E p \in Calls : Call(p)
  \/ \E p \in Calls : Enter(p)
  \/ \E p \in Calls : ProcessNextLine(p)
  \/ \E p \in Calls : Finish(p)

\* One call from the caller's choice of arguments to the return; a call
\* that can step does step.
SpecTotal == InitTotal /\ [][NextTotal]_vars /\ WF_vars(NextTotal)

\* ----------------------------------------------- the indices the code reads

\* std::size_t arithmetic wraps; every string of the model is far shorter
\* than SizeModulus, so a wrapped difference is, like the true one, larger
\* than every length.
SizeModulus == 1073741824

SizeSub(a, b) == (a - b) % SizeModulus

\* s[i] for a 0-based index i; outside the string the value read is not
\* defined and is taken as 0.
At(s, i) == IF 0 <= i /\ i < Len(s) THEN s[i + 1] ELSE 0

\* IsPageMarker: the 0-based indices read by s[s.size() - 1], [- 2], [- 3]
\* (the && chain stops at the first false).
IsPageMarker_reads(s) ==
  LET n == Len(s) IN
  IF n < 7 \/ ~StartsWith(s, <<61, 61, 61, 32>>) THEN {}
  ELSE IF At(s, SizeSub(n, 1)) # 61 THEN {SizeSub(n, 1)}
  ELSE IF At(s, SizeSub(n, 2)) # 61 THEN {SizeSub(n, 1), SizeSub(n, 2)}
  ELSE {SizeSub(n, 1), SizeSub(n, 2), SizeSub(n, 3)}

\* IsMetadataLine: the indices read by the separator scan and by the scan
\* for the first non-space after the separator, in the stripped line.
IsMetadataLine_reads(line) ==
  LET s       == Strip(line)
      n       == Len(s)
      seps    == {i \in 0..(n - 1) : At(s, i) \in METADATA_SEPARATORS}
      sep_idx == SetMin(seps)
      scan    == IF seps = {} THEN 0..(n - 1) ELSE 0..sep_idx
      key     == Strip(SubSeq(s, 1, sep_idx))
      rest    == {j \in (sep_idx + 1)..(n - 1) : At(s, j) \notin {32, 9, 12288}}
      value   == IF rest = {} THEN (sep_idx + 1)..(n - 1)
                 ELSE (sep_idx + 1)..SetMin(rest)
  IN  IF n = 0 \/ n > 30 THEN {}
      ELSE IF seps = {} \/ sep_idx = 0 \/ sep_idx > 10 THEN scan
      ELSE IF key = <<>> \/ key \notin METADATA_KEYS THEN scan
      ELSE scan \cup value

\* IsTitleHeading after its early returns: the indices read by the scan for
\* U+7B2C (0..min(10, len - 1), up to the first hit) and by the scan for a
\* chapter marker (di + 1..min(len - 1, di + 1 + 5), up to the first marker
\* that is accepted), with s_left[j + 1] read behind a marker if j + 1 < len.
IsTitleHeading_scan(s_left) ==
  LET len            == Len(s_left)
      max_before_di  == Min(10, SizeSub(len, 1))
      dis            == {i \in 0..max_before_di : At(s_left, i) = 31532}
      di             == SetMin(dis)
      scan           == IF dis = {} THEN 0..max_before_di ELSE 0..di
      max_marker_pos == Min(SizeSub(len, 1), di + 1 + 5)
      IsMarker(j)    == At(s_left, j) \in CHAPTER_MARKERS
      Excluded(j)    == /\ j + 1 < len
                        /\ At(s_left, j + 1) \in EXCLUDED_CHAPTER_MARKERS_PREFIX
      hits           == {j \in (di + 1)..max_marker_pos :
                           /\ IsMarker(j) /\ ~Excluded(j)
                           /\ SizeSub(SizeSub(len, j), 1) <= 20}
      stop           == IF hits = {} THEN max_marker_pos ELSE SetMin(hits)
      marks          == (di + 1)..stop
      nexts          == {j + 1 : j \in {k \in marks : IsMarker(k) /\ k + 1 < len}}
  IN  IF dis = {} THEN scan ELSE scan \cup marks \cup nexts

\* The scan entered for every string, the empty one included: len - 1 wraps.
IsTitleHeading_reads_unguarded(s_left) ==
  IF \/ \E w \in TITLE_WORDS : StartsWith(s_left, w)
     \/ (StartsWith(s_left, <<30058, 22806>>) /\ Len(s_left) <= 2 + 15)
  THEN {}
  ELSE IsTitleHeading_scan(s_left)

\* IsTitleHeading: nothing is read by index for len == 0, len > 50 and for
\* a line that starts with a title word.
IsTitleHeading_reads(s_left) ==
  IF Len(s_left) = 0 \/ Len(s_left) > 50 THEN {}
  ELSE IF \/ \E w \in TITLE_WORDS : StartsWith(s_left, w)
          \/ (StartsWith(s_left, <<30058, 22806>>) /\ Len(s_left) <= 2 + 15)
  THEN {}
  ELSE IsTitleHeading_scan(s_left)

\* IsHeadingLike: IsPageMarker(s), s.back() and, for size >= 2, s.front(),
\* in the stripped line.
IsHeadingLike_reads(raw) ==
  LET s == Strip(raw)
      n == Len(s)
  IN  IF n = 0 THEN {}
      ELSE IF IsPageMarker(s) THEN IsPageMarker_reads(s)
      ELSE IF At(s, SizeSub(n, 1)) \in CJK_PUNCT_END \/ HasOpenBracketNoClose(s)
        THEN IsPageMarker_reads(s) \cup {SizeSub(n, 1)}
      ELSE IF n >= 2 THEN IsPageMarker_reads(s) \cup {SizeSub(n, 1), 0}
      ELSE IsPageMarker_reads(s) \cup {SizeSub(n, 1)}

\* Utf8ToU32: the byte indices (1-based) at which a round of the loop
\* starts, among p..(e - 1) with the first round at p.
RECURSIVE Utf8ToU32Rounds(_, _, _)
Utf8ToU32Rounds(s, p, e) ==
  IF p >= e THEN [starts |-> {}, next |-> p]
  ELSE IF e - p = 1
    THEN [starts |-> {p}, next |-> p + Utf8ToU32Width(s, p)]
  ELSE LET mid   == (p + e) \div 2
           left  == Utf8ToU32Rounds(s, p, mid)
           right == Utf8ToU32Rounds(s, left.next, e)
       IN  [starts |-> left.starts \cup right.starts, next |-> right.next]

\* Utf8ToU32: the 0-based indices read: the lead byte of every round and
\* the bytes the round takes by look-ahead.
Utf8ToU32_reads(s) ==
  UNION {(p - 1)..(p + Utf8ToU32Width(s, p) - 2) :
           p \in Utf8ToU32Rounds(s, 1, Len(s) + 1).starts}

\* The lines of the normalized text as bytes (what Utf8ToU32 is given).
SplitBytes(norm) ==
  LET n  == Len(norm)
      nl == SelectSeq([i \in 1..n |-> i], LAMBDA i : norm[i] = 10)
      k  == Len(nl)
  IN  [j \in 1..(k + 1) |->
         SubSeq(norm, IF j = 1 THEN 1 ELSE nl[j - 1] + 1,
                      IF j = k + 1 THEN n ELSE nl[j] - 1)]

Reads(fn, s, idxs) == {[fn |-> fn, len |-> Len(s), idx |-> i] : i \in idxs}

\* The reads of the classifiers called in the round for one line: none of
\* them is called for an empty line or a divider.
ClassifierReads(raw_line32) ==
  LET stripped      == CollapseRepeatedSegments(RStrip(raw_line32))
      stripped_left == LStrip(stripped)
  IN  IF stripped = <<>> \/ IsBoxDrawingLine(stripped_left) THEN {}
      ELSE Reads("IsTitleHeading", stripped_left,
                 IsTitleHeading_reads(stripped_left))
           \cup Reads("IsMetadataLine", Strip(stripped_left),
                      IsMetadataLine_reads(stripped_left))
           \cup Reads("IsHeadingLike", Strip(stripped),
                      IsHeadingLike_reads(stripped))
           \cup Reads("IsPageMarker", stripped, IsPageMarker_reads(stripped))

\* The reads of the decoder on the lines of call p's text.
DecoderReads(p) ==
  LET bl == SplitBytes(NormalizeLineEndings(utf8Text[p]))
  IN  UNION {Reads("Utf8ToU32", bl[j], Utf8ToU32_reads(bl[j])) : j \in DOMAIN bl}

\* The reads made so far by call p: the decoder's once the lines are split,
\* the classifiers' for every line the loop has passed.
ReadsSoFar(p) ==
  IF pc[p] \in {"idle", "call"} \/ AllSpace(utf8Text[p]) THEN {}
  ELSE DecoderReads(p)
       \cup UNION {ClassifierReads(lines32[p][k]) : k \in 1..(line_no[p] - 1)}

AllReadsInBounds == \A p \in Calls : \A r \in ReadsSoFar(p) : r.idx < r.len

\* The loop index stays within 1..size + 1, and a call that went through the
\* loop returns with every line passed.
LinesConsumed ==
  \A p \in Calls :
    /\ pc[p] = "loop" => line_no[p] \in 1..(Len(lines32[p]) + 1)
    /\ (pc[p] = "done" /\ ~AllSpace(utf8Text[p]))
         => line_no[p] = Len(lines32[p]) + 1

\* The loop index moves by one line at a time, and the lines are fixed once
\* split.
OneLinePerRound ==
  \A p \in Calls :
    /\ line_no'[p] # line_no[p] => line_no'[p] = line_no[p] + 1
    /\ lines32'[p] # lines32[p] => pc[p] = "call"

\* The rounds and steps call p has still to take: the entry, one round per
\* line, the last flush with the return.
StepsLeft(p) ==
  IF pc[p] = "call"
    THEN Len(SplitBytes(NormalizeLineEndings(utf8Text[p]))) + 2
  ELSE IF pc[p] = "loop" THEN Len(lines32[p]) + 2 - line_no[p]
  ELSE 0

\* A call that has not returned has a step to take: the entry, a round
\* (line_no <= size) or the last flush (line_no > size).
CanStep(p) ==
  \/ pc[p] \in {"idle", "call"}
  \/ pc[p] = "loop" /\ line_no[p] <= Len(lines32[p])
  \/ pc[p] = "loop" /\ line_no[p] > Len(lines32[p])

\* Every step of a call brings the return nearer.
StepsLeftDecreases ==
  \A p \in Calls :
    pc[p] # "idle" => /\ StepsLeft(p)' < StepsLeft(p)
                      /\ StepsLeft(p)' >= 0

\* A call that returned returns what the function computes.
ReturnsResult ==
  \A p \in Calls :
    pc[p] = "done" =>
      result[p] = ReflowCjkParagraphs(utf8Text[p], addPdfPageHeader[p], compact[p])

\* C11: the call is total: every read of IsTitleHeading, IsPageMarker,
\* IsMetadataLine, IsHeadingLike and Utf8ToU32 is at an index inside its
\* string; the loop passes the lines one by one, each once; a call that has
\* not returned can step, every step lowers the number of steps left, and
\* the call returns its result.
C11_Total ==
  /\ [](/\ AllReadsInBounds /\ LinesConsumed
        /\ \A p \in Calls : pc[p] # "done" => CanStep(p)
        /\ ReturnsResult)
  /\ [][OneLinePerRound /\ StepsLeftDecreases]_vars

\* A finished call whose first line is U+7B2C alone (IsTitleHeading read
\* index 0 = len - 1) and whose second line is an unclosed opener.
C11_Witness ==
  \E p \in Calls :
    /\ pc[p] = "done"
    /\ lines32[p] = << <<31532>>, <<12300>> >>
    /\ \E r \in ReadsSoFar(p) : r.fn = "IsTitleHeading" /\ r.idx = 0
    /\ \E r \in ReadsSoFar(p) : r.fn = "Utf8ToU32" /\ r.idx = 2
    /\ result[p] # <<>>

\* ------------------------------------------------ well-formed UTF-8

IsContinuation(b) == 128 <= b /\ b <= 191

\* The length of the well-formed UTF-8 sequence that starts at byte index p
\* of s (1-based), or 0 if none does (Unicode, table 3-7).
WellFormedLen(s, p) ==
  LET n == Len(s)
      b(k) == s[p + k]
      Cont(k) == p + k <= n /\ IsContinuation(b(k))
      In(k, lo, hi) == p + k <= n /\ lo <= b(k) /\ b(k) <= hi
  IN  IF b(0) <= 127 THEN 1
      ELSE IF 194 <= b(0) /\ b(0) <= 223 /\ Cont(1) THEN 2
      ELSE IF b(0) = 224 /\ In(1, 160, 191) /\ Cont(2) THEN 3
      ELSE IF b(0) = 237 /\ In(1, 128, 159) /\ Cont(2) THEN 3
      ELSE IF 225 <= b(0) /\ b(0) <= 239 /\ b(0) # 237 /\ Cont(1) /\ Cont(2) THEN 3
      ELSE IF b(0) = 240 /\ In(1, 144, 191) /\ Cont(2) /\ Cont(3) THEN 4
      ELSE IF 241 <= b(0) /\ b(0) <= 243 /\ Cont(1) /\ Cont(2) /\ Cont(3) THEN 4
      ELSE IF b(0) = 244 /\ In(1, 128, 143) /\ Cont(2) /\ Cont(3) THEN 4
      ELSE 0

\* The code point of the well-formed sequence of length w at p.
CodePointAt(s, p, w) ==
  IF w = 1 THEN s[p]
  ELSE IF w = 2 THEN (s[p] % 32) * 64 + (s[p + 1] % 64)
  ELSE IF w = 3 THEN (s[p] % 16) * 4096 + (s[p + 1] % 64) * 64 + (s[p + 2] % 64)
  ELSE (s[p] % 8) * 262144 + (s[p + 1] % 64) * 4096
       + (s[p + 2] % 64) * 64 + (s[p + 3] % 64)

\* A repairing decoder over the byte indices p..(e - 1), the first sequence
\* at p: a well-formed sequence gives its code point, any other byte gives
\* U+FFFD; ok tells that no byte had to be repaired.
RECURSIVE RepairRange(_, _, _)
RepairRange(s, p, e) ==
  IF p >= e THEN [out |-> <<>>, next |-> p, ok |-> TRUE]
  ELSE IF e - p = 1
    THEN LET w == WellFormedLen(s, p)
         IN  IF w = 0 THEN [out |-> <<65533>>, next |-> p + 1, ok |-> FALSE]
             ELSE [out |-> <<CodePointAt(s, p, w)>>, next |-> p + w, ok |-> TRUE]
  ELSE LET mid   == (p + e) \div 2
           left  == RepairRange(s, p, mid)
           right == RepairRange(s, left.next, e)
       IN  [out |-> left.out \o right.out, next |-> right.next,
            ok |-> left.ok /\ right.ok]

\* C12: Utf8ToU32 repairs malformed input: a line of well-formed UTF-8 is
\* decoded to its code points, and the decoding of a line that is not
\* well-formed holds U+FFFD (for the bytes that are not well-formed).
C12_MalformedBecomesReplacement ==
  \A p \in Calls :
    (pc[p] \in {"loop", "done"} /\ ~AllSpace(utf8Text[p])) =>
      LET bl == SplitBytes(NormalizeLineEndings(utf8Text[p]))
      IN  \A j \in DOMAIN bl :
            LET r == RepairRange(bl[j], 1, Len(bl[j]) + 1)
            IN  /\ r.ok => lines32[p][j] = r.out
                /\ ~r.ok => \E i \in DOMAIN lines32[p][j] : lines32[p][j][i] = 65533

\* ------------------------- the original implementation (PdfiumHelper.hpp)

\* U+FF08 ( [ U+3010 U+300A U+3008 U+FF3B U+FF5B
PdfiumHelper_OPEN_BRACKETS ==
  {65288, 40, 91, 12304, 12298, 12296, 65339, 65371}

\* U+FF09 ) ] U+3011 U+300B U+3009 U+FF3D U+FF5D
PdfiumHelper_CLOSE_BRACKETS ==
  {65289, 41, 93, 12305, 12299, 12297, 65341, 65373}

\* AnyOf(s, OPEN_BRACKETS) and not AnyOf(s, CLOSE_BRACKETS)
PdfiumHelper_HasOpenBracketNoClose(s) ==
  /\ \E i \in 1..Len(s) : s[i] \in PdfiumHelper_OPEN_BRACKETS
  /\ \A i \in 1..Len(s) : s[i] \notin PdfiumHelper_CLOSE_BRACKETS

\* The original IsHeadingLike: its own bracket test, and no shortcut for a
\* line wrapped in brackets.
PdfiumHelper_IsHeadingLike(raw) ==
  LET s    == Strip(raw)
      last == s[Len(s)]
      all_ascii == IsAllAscii(s)
      max_len == IF all_ascii \/ IsMixedCjkAscii(s)
                 THEN SHORT_HEADING_MAX_LEN * 2 ELSE SHORT_HEADING_MAX_LEN
      hasNonAscii    == \E i \in 1..Len(s) : s[i] > 127
      hasLetter      == \E i \in 1..Len(s) : IsAsciiLetter(s[i])
      allAsciiDigits == \A i \in 1..Len(s) : IsAsciiDigit(s[i])
  IN  IF s = <<>> THEN FALSE
      ELSE IF IsPageMarker(s) THEN FALSE
      ELSE IF last \in CJK_PUNCT_END THEN FALSE
      ELSE IF PdfiumHelper_HasOpenBracketNoClose(s) THEN FALSE
      ELSE IF Len(s) > max_len THEN FALSE
      ELSE IF allAsciiDigits THEN TRUE
      ELSE IF hasNonAscii /\ last # 65292 /\ last # 44 THEN TRUE
      ELSE all_ascii /\ hasLetter

\* One round of the original loop: the same rules, with the original
\* IsHeadingLike.
PdfiumHelper_ProcessLine(st, raw_line32, addHeader) ==
  ProcessLineRules(st, raw_line32, addHeader,
                   PdfiumHelper_IsHeadingLike(
                     CollapseRepeatedSegments(RStrip(raw_line32))))

RECURSIVE PdfiumHelper_RunLoop(_, _, _, _)
PdfiumHelper_RunLoop(st, lines, i, addHeader) ==
  IF i > Len(lines) THEN st
  ELSE PdfiumHelper_RunLoop(
         PdfiumHelper_ProcessLine(st, lines[i], addHeader),
         lines, i + 1, addHeader)

\* The original ReflowCjkParagraphs.
PdfiumHelper_ReflowCjkParagraphs(text, addHeader, isCompact) ==
  IF AllSpace(text) THEN text
  ELSE U32ToUtf8(JoinSegments(
         FlushLast(PdfiumHelper_RunLoop(
                     LoopStart, SplitLines(NormalizeLineEndings(text)), 1,
                     addHeader)).segments,
         isCompact))

\* C13: the call returns what the original ReflowCjkParagraphs of
\* PdfiumHelper.hpp returns for the same arguments, and the two IsHeadingLike
\* agree on every line of the text.
C13_SameAsOriginal ==
  \A p \in Calls :
    pc[p] = "done" =>
      /\ result[p] = PdfiumHelper_ReflowCjkParagraphs(
                       utf8Text[p], addPdfPageHeader[p], compact[p])
      /\ \A k \in DOMAIN lines32[p] :
           LET stripped == CollapseRepeatedSegments(RStrip(lines32[p][k]))
           IN  IsHeadingLike(stripped) = PdfiumHelper_IsHeadingLike(stripped)

\* ------------------------------------------------ the rules of the loop

\* Tier 1, the strong sentence ends: U+3002 U+FF01 U+FF1F ! ?
IsStrongSentenceEnd(ch) == ch \in {12290, 65281, 65311, 33, 63}

\* The last character of s that is not whitespace (0 if there is none).
LastNonWhitespace(s) ==
  LET keep == {i \in 1..Len(s) : ~IsWhitespace(s[i])}
  IN  IF keep = {} THEN 0 ELSE s[SetMax(keep)]

\* C14: without page headers and with text in the buffer, a round that reads
\* an empty line flushes the buffer if its last non-whitespace character is
\* a strong sentence end, and otherwise changes nothing, so that the next
\* prose line meets the buffer as the empty line found it.
C14_EmptyLineFlushesAfterStrongEnd ==
  [][\A p \in Calls :
       (/\ StepsLine(p)
        /\ NextStripped(p) = <<>>
        /\ ~addPdfPageHeader[p]
        /\ buffer[p] # <<>>) =>
         IF IsStrongSentenceEnd(LastNonWhitespace(buffer[p]))
         THEN /\ segments'[p] = Append(segments[p], buffer[p])
              /\ buffer'[p] = <<>>
         ELSE /\ segments'[p] = segments[p]
              /\ buffer'[p] = buffer[p]
              /\ dialog_state'[p] = dialog_state[p]]_vars

\* ------------------------------------------- the rules of the loop: inputs

MaxRuleLines == 3

\* Lines that reach each rule of the loop: sentence ends with and without an
\* open quote, comma and colon endings, dialogue lines, a short heading-like
\* line, an unclosed bracket, dividers, a title, long prose.
RuleLinePool32 ==
  { <<>>,                                   \* the empty line
    <<30002, 12290>>,                       \* U+7532 U+3002: ends a sentence
    <<12300, 30002, 65281>>,                \* U+300C U+7532 U+FF01: ends a sentence, quote open
    <<32, 32, 12300, 20057, 12301>>,        \* indented U+300C U+4E59 U+300D: dialogue
    <<12300, 20057, 12301>>,                \* U+300C U+4E59 U+300D: dialogue
    <<30002, 65292>>,                       \* U+7532 U+FF0C: ends with a comma
    <<30002, 65306>>,                       \* U+7532 U+FF1A: ends with a colon
    <<20057, 19993>>,                       \* U+4E59 U+4E19: short, heading-like
    <<65288, 30002>>,                       \* U+FF08 U+7532: a bracket left open
    <<45, 45, 45>>,                         \* "---": a divider
    <<12288, 45, 45, 45>>,                  \* U+3000 and "---": an indented divider
    <<42, 32, 42, 32, 42>>,                 \* "* * *": a divider of spaced glyphs
    <<31532, 19968, 31456>>,                \* U+7B2C U+4E00 U+7AE0: a title
    \* 9 ideographs: long prose without punctuation
    <<22825, 27668, 24456, 22909, 25105, 20204, 20986, 21435, 29609>> }

RuleTexts ==
  {JoinLines(ls) :
     ls \in SeqsUpTo({U32ToUtf8(l) : l \in RuleLinePool32}, MaxRuleLines)}

\* One call on a text made of the lines above.
InitRules == InitCalls({1}, RuleTexts)

SpecRules == InitRules /\ [][Next]_vars

\* -------------------------------------------------- the rules of the loop

\* The buffer of call p is pending text whose last character is a Tier-1
\* sentence end, with no dialogue quote open.
SentenceEnded(p) ==
  /\ pc[p] = "loop"
  /\ buffer[p] # <<>>
  /\ IsStrongSentenceEnd(buffer[p][Len(buffer[p])])
  /\ ~DialogState_is_unclosed(dialog_state[p])

\* C15: once the buffer ends with a line whose last character is a Tier-1
\* sentence end and no dialogue quote is open, the next step of the call,
\* whatever line it reads (or the last flush, if there is none) and
\* whatever addPdfPageHeader is, pushes the buffer as it is as the next
\* segment, and no later step changes a segment already pushed: no later
\* line is merged into that segment.
C15_StrongEndClosesSegment ==
  [][\A p \in Calls :
       /\ (SentenceEnded(p) /\ (line_no'[p] # line_no[p] \/ pc'[p] # pc[p])) =>
            /\ Len(segments'[p]) > Len(segments[p])
            /\ segments'[p][Len(segments[p]) + 1] = buffer[p]
       /\ pc[p] = "loop" => IsPrefix(segments[p], segments'[p])]_vars

\* A finished call on three lines: a sentence that ends with U+3002, long
\* prose, and an empty line or more prose; the sentence is the first segment
\* alone.
C15_Witness ==
  \E p \in Calls :
    /\ pc[p] = "done"
    /\ Len(lines32[p]) = 3
    /\ lines32[p][1] = <<30002, 12290>>
    /\ lines32[p][2] = <<22825, 27668, 24456, 22909, 25105, 20204, 20986, 21435, 29609>>
    /\ segments[p][1] = lines32[p][1]
    /\ Len(segments[p]) = 2

\* The line call p reads next begins, after leading blanks, with a dialogue
\* opener.
NextOpensDialogue(p) ==
  /\ NextProbe(p) # <<>>
  /\ NextProbe(p)[1] \in DIALOG_OPENERS

\* C16: when the last non-space character of the buffer is comma-like, a
\* round that reads a line beginning (after optional leading whitespace)
\* with a dialogue opener flushes nothing: the segments stay as they are and
\* the line is appended to the buffer.
C16_CommaSuppressesDialogueFlush ==
  [][\A p \in Calls :
       (/\ StepsLine(p)
        /\ buffer[p] # <<>>
        /\ IsCommaLike(LastNonWhitespace(buffer[p]))
        /\ NextOpensDialogue(p)) =>
         /\ segments'[p] = segments[p]
         /\ buffer'[p] = buffer[p] \o NextStripped(p)]_vars

\* C17: when the last character of the buffer is a colon (U+FF1A or ':'), a
\* round that reads a line beginning, after leading blanks, with a dialogue
\* opener appends the line to the buffer and updates the dialog state with
\* it; nothing is flushed, so the introducing clause and the quoted speech
\* are in the same segment.
C17_ColonKeepsDialogueInParagraph ==
  [][\A p \in Calls :
       (/\ StepsLine(p)
        /\ buffer[p] # <<>>
        /\ buffer[p][Len(buffer[p])] \in {65306, 58}
        /\ NextOpensDialogue(p)) =>
         /\ segments'[p] = segments[p]
         /\ buffer'[p] = buffer[p] \o NextStripped(p)
         /\ dialog_state'[p] =
              DialogState_update(dialog_state[p], NextStripped(p))]_vars

\* The buffer of call p is safe for a heading to follow: it holds no bracket
\* left open, and it is empty or its last non-space character is not
\* comma-like.
BufferSafeForHeading(p) ==
  /\ ~HasOpenBracketNoClose(buffer[p])
  /\ buffer[p] = <<>> \/ ~IsCommaLike(LastNonWhitespace(buffer[p]))

\* C18: a round that reads a weak heading-like line (IsHeadingLike, not a
\* divider, page marker, title heading or metadata line) while the buffer
\* holds an unclosed bracket or ends in a comma-like character does not
\* push the line as a segment: the line goes into the buffer as the merge
\* rules decide, appended to the paragraph or starting the next one.
C18_HeadingLikeNeedsSafeBuffer ==
  [][\A p \in Calls :
       (/\ StepsLine(p)
        /\ NextIsProse(p)
        /\ IsHeadingLike(NextStripped(p))
        /\ ~BufferSafeForHeading(p)) =>
         /\ buffer'[p] \in {buffer[p] \o NextStripped(p), NextStripped(p)}
         /\ segments'[p] \in {segments[p], Append(segments[p], buffer[p])}]_vars

\* C19: after the entry and after every round of the loop, dialog_state is
\* what DialogState::update gives from six zero counters over the whole
\* buffer (so the counters are all zero when the buffer is empty), and a
\* round that flushes a non-empty buffer leaves nothing of the flushed
\* paragraph in the counters.
C19_DialogStateFollowsBuffer ==
  /\ [](\A p \in Calls :
          pc[p] \in {"loop", "done"} =>
            /\ dialog_state[p] = DialogState_update(DialogState_reset, buffer[p])
            /\ buffer[p] = <<>> => dialog_state[p] = DialogState_reset)
  /\ [][\A p \in Calls :
          (/\ StepsLine(p) /\ buffer[p] # <<>>
           /\ segments'[p] # segments[p]) =>
            dialog_state'[p] =
              DialogState_update(DialogState_reset, buffer'[p])]_vars

\* A round has flushed a paragraph that left a quote open (the buffer held
\* U+300C U+7532 U+FF01 when a title was read), and the buffer is empty
\* with all counters zero.
C19_Witness ==
  \E p \in Calls :
    /\ pc[p] = "loop"
    /\ line_no[p] = 3
    /\ lines32[p][1] = <<12300, 30002, 65281>>
    /\ lines32[p][2] = <<31532, 19968, 31456>>
    /\ segments[p] = <<lines32[p][1], lines32[p][2]>>
    /\ buffer[p] = <<>>
    /\ dialog_state[p] = DialogState_reset

\* The line call p reads next is a visual divider: without its leading and
\* trailing blanks it holds only whitespace and at least 3 divider glyphs.
NextIsDivider(p) ==
  IsBoxDrawingLine(LStrip(RStrip(lines32[p][line_no[p]])))

\* C20: a round that reads a visual divider pushes the pending buffer (if
\* any) and then a segment that holds only the divider, leaves the buffer
\* empty, and no later step changes a segment already pushed: the text
\* before the divider and the text after it are in different segments,
\* whatever the buffer and the dialog state are.
C20_DividerForcesParagraphBreak ==
  [][\A p \in Calls :
       /\ (StepsLine(p) /\ NextIsDivider(p)) =>
            LET flushed == IF buffer[p] = <<>> THEN segments[p]
                           ELSE Append(segments[p], buffer[p])
            IN  /\ Len(segments'[p]) = Len(flushed) + 1
                /\ IsPrefix(flushed, segments'[p])
                /\ IsBoxDrawingLine(segments'[p][Len(segments'[p])])
                /\ buffer'[p] = <<>>
       /\ pc[p] = "loop" => IsPrefix(segments[p], segments'[p])]_vars

\* ------------------------------------------------- repeat collapse: inputs

MaxPhraseLen == 4
MaxCopies == 4
MaxRun == 13

\* The tokens phrases are made of: U+7532, U+4E59.
PhraseTokens == {<<30002>>, <<20057>>}

\* Tokens joined by single spaces, as they are.
JoinBySpace(parts) ==
  Flatten([j \in 1..Len(parts) |->
             (IF j > 1 THEN <<32>> ELSE <<>>) \o parts[j]])

\* k copies of a phrase, token after token.
Copies(phrase, k) ==
  [i \in 1..(k * Len(phrase)) |-> phrase[((i - 1) % Len(phrase)) + 1]]

\* One character n times.
Run(ch, n) == [i \in 1..n |-> ch]

\* The lines given to the collapse: 1 to MaxCopies copies of every phrase of
\* up to MaxPhraseLen tokens; a token that is the unit "abcd" 3 times, alone
\* and as a phrase repeated 3 times; U+54C8 repeated 1 to MaxRun times and
\* 200 times; lines with leading, double and tab whitespace.
CollapseLinePool32 ==
  {JoinBySpace(Copies(ph, k)) :
     ph \in SeqsUpTo(PhraseTokens, MaxPhraseLen) \ {<<>>}, k \in 1..MaxCopies}
  \cup {Copies(<<97, 98, 99, 100>>, 3),
        JoinBySpace(Copies(<<Copies(<<97, 98, 99, 100>>, 3)>>, 3))}
  \cup {Run(21704, n) : n \in (1..MaxRun) \cup {200}}
  \cup { <<32, 32, 30002, 32, 20057>>,      \* "  A B"
         <<30002, 32, 32, 20057>>,          \* "A  B"
         <<30002, 9, 20057>>,               \* "A\tB"
         <<12288, 30002, 32, 20057>> }      \* U+3000 "A B"

CollapseTexts == {U32ToUtf8(l) : l \in CollapseLinePool32}

\* One call on a text of one line.
InitCollapse == InitCalls({1}, CollapseTexts)

SpecCollapse == InitCollapse /\ [][Next]_vars

\* -------------------------------------------------------- repeat collapse

\* The line is k copies of the phrase of its first L tokens, separated by
\* single spaces.
IsCopiesOfPhrase(line, L, k) ==
  LET parts == SplitTokens(line) IN
  /\ Len(parts) = k * L
  /\ parts = Copies(SubSeq(parts, 1, L), k)
  /\ line = JoinBySpace(parts)

\* The phrase of the first L tokens is not itself copies of a shorter one.
IsPrimitivePhrase(line, L) ==
  LET parts == SplitTokens(line) IN
  \A M \in 1..(L - 1) :
    ~(L % M = 0 /\ SubSeq(parts, 1, L) = Copies(SubSeq(parts, 1, M), L \div M))

\* The line begins with three copies in a row of its first M tokens.
StartsWithTripled(line, M) ==
  LET parts == SplitTokens(line) IN
  /\ Len(parts) >= 3 * M
  /\ SubSeq(parts, 1, M) = SubSeq(parts, M + 1, 2 * M)
  /\ SubSeq(parts, 1, M) = SubSeq(parts, 2 * M + 1, 3 * M)

\* The token is a unit of 4 to 10 code points repeated at least 3 times.
IsRepeatedUnit(tok) ==
  \E u \in 4..10 :
    /\ Len(tok) % u = 0
    /\ Len(tok) \div u >= 3
    /\ tok = Copies(SubSeq(tok, 1, u), Len(tok) \div u)

\* The first L tokens of the line, joined by single spaces.
PhraseOf(line, L) == JoinBySpace(SubSeq(SplitTokens(line), 1, L))

\* C21: every line that is k >= 3 space-separated copies of a phrase of 1
\* to 8 tokens collapses to exactly one copy of the phrase, and the collapse
\* comes before the line is classified or merged: a call on that line alone
\* returns the phrase.
C21_RepeatedPhraseCollapsesToOne ==
  \A p \in Calls :
    pc[p] # "call" =>
      \A i \in 1..Len(lines32[p]) :
        \A L \in 1..8, k \in 3..Len(lines32[p][i]) :
          (/\ IsCopiesOfPhrase(lines32[p][i], L, k)
           /\ IsPrimitivePhrase(lines32[p][i], L)) =>
            /\ CollapseRepeatedSegments(lines32[p][i]) = PhraseOf(lines32[p][i], L)
            /\ (pc[p] = "done" /\ Len(lines32[p]) = 1) =>
                 Utf8ToU32(result[p]) = PhraseOf(lines32[p][i], L)

\* C21 (amended): the same for a phrase in which no shorter run of tokens
\* at the start of the line comes three times in a row and no token is
\* itself a unit of 4 to 10 code points repeated at least 3 times.
C21_PhraseWithoutInnerRepeatCollapsesToOne ==
  \A p \in Calls :
    pc[p] # "call" =>
      \A i \in 1..Len(lines32[p]) :
        \A L \in 1..8, k \in 3..Len(lines32[p][i]) :
          (/\ IsCopiesOfPhrase(lines32[p][i], L, k)
           /\ \A M \in 1..(L - 1) : ~StartsWithTripled(lines32[p][i], M)
           /\ \A j \in 1..L : ~IsRepeatedUnit(SplitTokens(lines32[p][i])[j])) =>
            /\ CollapseRepeatedSegments(lines32[p][i]) = PhraseOf(lines32[p][i], L)
            /\ (pc[p] = "done" /\ Len(lines32[p]) = 1) =>
                 Utf8ToU32(result[p]) = PhraseOf(lines32[p][i], L)

\* A finished call on "A A B A A B A A B" (A = U+7532, B = U+4E59) has
\* returned "A A B".
C21_Witness ==
  \E p \in Calls :
    /\ pc[p] = "done"
    /\ lines32[p] = <<JoinBySpace(Copies(<<<<30002>>, <<30002>>, <<20057>>>>, 3))>>
    /\ Utf8ToU32(result[p]) = <<30002, 32, 30002, 32, 20057>>

\* The line is one token: one character, not a blank, repeated.
IsRunOfOneCharacter(line) ==
  /\ line # <<>>
  /\ line[1] \notin {32, 9}
  /\ line = Run(line[1], Len(line))

\* C22: a token that is one character repeated n times, for every n up to
\* the limit of 200 code points, is returned unchanged by
\* CollapseRepeatedToken and by CollapseRepeatedSegments.
C22_CharacterRunUnchanged ==
  \A p \in Calls :
    pc[p] # "call" =>
      \A i \in 1..Len(lines32[p]) :
        (IsRunOfOneCharacter(lines32[p][i]) /\ Len(lines32[p][i]) <= 200) =>
          /\ CollapseRepeatedToken(lines32[p][i]) = lines32[p][i]
          /\ CollapseRepeatedSegments(lines32[p][i]) = lines32[p][i]

\* Some phrase of 1 to 8 tokens comes at least 3 times in a row somewhere
\* in the line, or some token is a repeated unit.
IsCollapseCandidate(line) ==
  LET parts == SplitTokens(line) IN
  \/ \E j \in 1..Len(parts) : IsRepeatedUnit(parts[j])
  \/ \E start \in 0..Len(parts), M \in 1..8 :
       /\ start + 3 * M <= Len(parts)
       /\ SubSeq(parts, start + 1, start + M)
            = SubSeq(parts, start + M + 1, start + 2 * M)
       /\ SubSeq(parts, start + 1, start + M)
            = SubSeq(parts, start + 2 * M + 1, start + 3 * M)

\* C23: a line that is not a collapse candidate is returned by
\* CollapseRepeatedSegments exactly as given, with its leading and interior
\* whitespace.
C23_NonCandidateLineUnmodified ==
  \A p \in Calls :
    pc[p] # "call" =>
      \A i \in 1..Len(lines32[p]) :
        ~IsCollapseCandidate(lines32[p][i]) =>
          CollapseRepeatedSegments(lines32[p][i]) = lines32[p][i]

\* ------------------------------------------------------------ line ends

MaxEndLines == 3

\* The three encodings of a line end: LF, CR LF, CR.
LineEnds == {<<10>>, <<13, 10>>, <<13>>}

\* Lines without a line end in them, as bytes: the empty line, a sentence,
\* a heading-like line, an indented dialogue line, a lead byte cut off by the
\* end of the line, and the bytes C0 4D 'J', which are not well-formed.
EndLinePool ==
  { <<>>,
    U32ToUtf8(<<30002, 12290>>),
    U32ToUtf8(<<20057, 19993>>),
    U32ToUtf8(<<32, 32, 12300, 20057, 12301>>),
    <<195>>,
    <<192, 77, 74>> }

\* The lines joined by a line end.
JoinWith(ls, sep) ==
  Flatten([i \in 1..Len(ls) |-> (IF i > 1 THEN sep ELSE <<>>) \o ls[i]])

LineEndTexts ==
  {JoinWith(ls, sep) : ls \in SeqsUpTo(EndLinePool, MaxEndLines), sep \in LineEnds}

\* One call on a text in one of the three encodings.
InitLineEnds == InitCalls({1}, LineEndTexts)

SpecLineEnds == InitLineEnds /\ [][Next]_vars

\* The text with every LF replaced by sep.
ReplaceLF(text, sep) ==
  Flatten([i \in 1..Len(text) |-> IF text[i] = 10 THEN sep ELSE <<text[i]>>])

\* C24: for an input that is not all-whitespace and uses only LF, the call
\* returns what it returns for the same text with every LF replaced by CR LF
\* and with every LF replaced by CR, and no returned text holds a CR.
C24_LineEndEncodingIrrelevant ==
  \A p \in Calls :
    (pc[p] = "done" /\ ~AllSpace(utf8Text[p])) =>
      /\ (\A i \in 1..Len(utf8Text[p]) : utf8Text[p][i] # 13) =>
           \A sep \in LineEnds :
             result[p] = ReflowCjkParagraphs(ReplaceLF(utf8Text[p], sep),
                                             addPdfPageHeader[p], compact[p])
      /\ \A i \in 1..Len(result[p]) : result[p][i] # 13

\* ------------------------------------- HasUnclosedBracket (PunctSets.hpp)

MaxDepth == 19
MaxSpills == 3

\* std::array<char32_t, 16> small
SmallSize == 16

IsBracketOpener(ch) == \E p \in BRACKET_PAIRS : p[1] = ch

IsBracketCloser(ch) == \E p \in BRACKET_PAIRS : p[2] = ch

IsMatchingBracket(open, close) == \E p \in BRACKET_PAIRS : p[1] = open /\ p[2] = close

\* The characters of the scanned strings: two of the 14 pairs, a letter.
ScanOpeners == {40, 91}
ScanClosers == {41, 93}
ScanLetters == {97}

\* Up to this depth the scanned strings nest parentheses only; above it
\* either opener.
PlainDepth == SmallSize - 2

\* The locals at the start of the loop, with the stack of the reference
\* matcher (stack), its answer (expected) and the number of times the
\* nesting has gone from 16 to 17 (spills).
ScanStart ==
  [pc |-> "scan", ch |-> 0,
   small |-> [i \in 0..(SmallSize - 1) |-> 0], big |-> <<>>, top |-> 0,
   seenBracket |-> FALSE, ret |-> FALSE,
   stack |-> <<>>, expected |-> FALSE, spills |-> 0]

\* The lambda push.
push(h, ch) ==
  IF h.top < SmallSize
  THEN [h EXCEPT !.small[h.top] = ch, !.top = @ + 1]
  ELSE [h EXCEPT !.big = (IF h.big = <<>>
                          THEN [i \in 1..SmallSize |-> h.small[i - 1]]
                          ELSE h.big) \o <<ch>>,
                 !.top = @ + 1]

\* big.back()
Back(big) == IF big = <<>> THEN 0 ELSE big[Len(big)]

\* A pop that leaves the array one level early: at top = 16 it reads the
\* vector, which holds what the array held at the last spill.
pop_from_vector_at_16(h) ==
  IF h.top < SmallSize
  THEN [h |-> [h EXCEPT !.top = @ - 1], ch |-> h.small[h.top - 1]]
  ELSE [h |-> [h EXCEPT !.big = SubSeq(@, 1, Len(@) - 1), !.top = @ - 1],
        ch |-> Back(h.big)]

\* The lambda pop (precondition top > 0): the frame after it and the
\* character returned.
pop(h) ==
  IF h.top <= SmallSize
  THEN [h |-> [h EXCEPT !.top = @ - 1], ch |-> h.small[h.top - 1]]
  ELSE [h |-> [h EXCEPT !.big = SubSeq(@, 1, Len(@) - 1), !.top = @ - 1],
        ch |-> Back(h.big)]

\* HasUnclosedBracket is called.
ScanCall ==
  /\ hasUnclosedBracket.pc = "idle"
  /\ hasUnclosedBracket' = ScanStart
  /\ UNCHANGED <<utf8Text, addPdfPageHeader, compact, pc, lines32, line_no,
                 segments, buffer, dialog_state, rule, result,
                 pdfExtraction, batch>>

\* A round of the loop that reads an opener.
ScanOpener ==
  LET h == hasUnclosedBracket IN
  /\ h.pc = "scan"
  /\ h.top < MaxDepth
  /\ h.top = SmallSize => h.spills < MaxSpills
  /\ \E ch \in ScanOpeners :
       /\ h.top < PlainDepth => ch = 40
       /\ hasUnclosedBracket' =
            [push([h EXCEPT !.seenBracket = TRUE], ch)
               EXCEPT !.ch = ch,
                      !.stack = Append(@, ch),
                      !.spills = IF h.top = SmallSize THEN @ + 1 ELSE @]
  /\ UNCHANGED <<utf8Text, addPdfPageHeader, compact, pc, lines32, line_no,
                 segments, buffer, dialog_state, rule, result,
                 pdfExtraction, batch>>

\* A round of the loop that reads a closer: a stray closer and a mismatched
\* closer return true.
ScanCloser ==
  LET h == hasUnclosedBracket IN
  /\ h.pc = "scan"
  /\ \E ch \in ScanClosers :
       LET refStray    == h.stack = <<>>
           refMismatch == ~refStray /\ ~IsMatchingBracket(h.stack[Len(h.stack)], ch)
           refAfter    == IF refStray THEN h.stack
                          ELSE SubSeq(h.stack, 1, Len(h.stack) - 1)
           g == [h EXCEPT !.seenBracket = TRUE, !.ch = ch,
                          !.stack = refAfter,
                          !.expected = refStray \/ refMismatch]
       IN  hasUnclosedBracket' =
             IF g.top = 0
             THEN [g EXCEPT !.pc = "done", !.ret = TRUE]
             ELSE LET r == pop(g) IN
                  IF ~IsMatchingBracket(r.ch, ch)
                  THEN [r.h EXCEPT !.pc = "done", !.ret = TRUE]
                  ELSE r.h
  /\ UNCHANGED <<utf8Text, addPdfPageHeader, compact, pc, lines32, line_no,
                 segments, buffer, dialog_state, rule, result,
                 pdfExtraction, batch>>

\* A round of the loop that reads a character that is no bracket.
ScanLetter ==
  LET h == hasUnclosedBracket IN
  /\ h.pc = "scan"
  /\ \E ch \in ScanLetters :
       /\ ~IsBracketOpener(ch) /\ ~IsBracketCloser(ch)
       /\ hasUnclosedBracket' = [h EXCEPT !.ch = ch]
  /\ UNCHANGED <<utf8Text, addPdfPageHeader, compact, pc, lines32, line_no,
                 segments, buffer, dialog_state, rule, result,
                 pdfExtraction, batch>>

\* The end of the string: return seenBracket && top != 0.
ScanEnd ==
  LET h == hasUnclosedBracket IN
  /\ h.pc = "scan"
  /\ hasUnclosedBracket' =
       [h EXCEPT !.pc = "done", !.ret = h.seenBracket /\ h.top # 0,
                 !.expected = h.stack # <<>>]
  /\ UNCHANGED <<utf8Text, addPdfPageHeader, compact, pc, lines32, line_no,
                 segments, buffer, dialog_state, rule, result,
                 pdfExtraction, batch>>

NextScan ==
  \/ ScanCall
  \/ ScanOpener
  \/ ScanCloser
  \/ ScanLetter
  \/ ScanEnd

\* No call of ReflowCjkParagraphs; one call of HasUnclosedBracket.
InitScan == InitCalls({}, {})

SpecScan == InitScan /\ [][NextScan]_vars

\* The stack the hybrid storage holds: the first 16 levels in the array,
\* the levels above in the vector.
HybridStack(h) ==
  [i \in 1..h.top |-> IF i <= SmallSize THEN h.small[i - 1] ELSE h.big[i]]

\* C25: HasUnclosedBracket returns true exactly when the reference matcher
\* with an unbounded stack meets a closer on an empty stack, meets a closer
\* that does not match the opener on top, or ends with a non-empty stack;
\* during the scan the array and the vector together hold exactly the
\* reference stack, at every depth and after any number of crossings of
\* depth 16.
C25_HybridStackIsAStack ==
  LET h == hasUnclosedBracket IN
  /\ h.pc = "scan" =>
       /\ h.top = Len(h.stack)
       /\ h.top > SmallSize => Len(h.big) = h.top
       /\ HybridStack(h) = h.stack
  /\ h.pc = "done" => h.ret = h.expected

\* A scan has ended with false after the nesting went from 16 to 17 three
\* times, the last time with '[' at level 16 where '(' had been before.
C25_Witness ==
  LET h == hasUnclosedBracket IN
  /\ h.pc = "done"
  /\ h.spills = MaxSpills
  /\ ~h.ret
  /\ h.small[SmallSize - 1] = 91
  /\ h.big # <<>> /\ h.big[SmallSize] = 40

\* ------------------------------------------------- title headings: inputs

\* At most MaxTitleLines lines in a text.
MaxTitleLines == 3

\* Lines that start with a fixed title word or match the chapter pattern,
\* with and without a comma, next to prose with and without a comma.
TitleLinePool32 ==
  { <<>>,
    <<21069, 35328>>,                       \* U+524D U+8A00
    \* U+524D U+8A00 U+FF0C and 7 ideographs
    <<21069, 35328, 65292, 22825, 27668, 24456, 22909, 25105, 20204, 20986>>,
    \* U+5E8F U+7AE0 ',' and 7 ideographs
    <<24207, 31456, 44, 22825, 27668, 24456, 22909, 25105, 20204, 20986>>,
    \* U+6954 U+5B50 U+FF0C U+7532
    <<26964, 23376, 65292, 30002>>,
    <<31532, 19968, 31456>>,                \* U+7B2C U+4E00 U+7AE0
    \* U+7B2C U+4E00 U+7AE0 U+FF0C and 7 ideographs
    <<31532, 19968, 31456, 65292, 22825, 27668, 24456, 22909, 25105, 20204,
      20986>>,
    \* 4 ideographs, U+FF0C and 5 ideographs: prose with a comma
    <<22825, 27668, 24456, 22909, 65292, 25105, 20204, 20986, 21435, 29609>>,
    \* 9 ideographs: long prose without punctuation
    <<22825, 27668, 24456, 22909, 25105, 20204, 20986, 21435, 29609>> }

TitleTexts ==
  {JoinLines(ls) :
     ls \in SeqsUpTo({U32ToUtf8(l) : l \in TitleLinePool32}, MaxTitleLines)}

\* One call on a text made of the lines above.
InitTitles == InitCalls({1}, TitleTexts)

SpecTitles == InitTitles /\ [][Next]_vars

\* ------------------------------------------------------- title headings

\* The line holds an ASCII or a full-width comma.
HasComma(s) == \E i \in 1..Len(s) : s[i] \in {44, 65292}

\* C26: IsTitleHeading is false for every line with an ASCII or full-width
\* comma that ReflowCjkParagraphs hands to it, and no round of the loop
\* that reads such a line pushes it as a title segment.
C26_CommaLineIsNoTitle ==
  [][\A p \in Calls :
       (StepsLine(p) /\ HasComma(NextProbe(p))) =>
         /\ ~IsTitleHeading(NextProbe(p))
         /\ rule'[p] # "title"]_vars

\* ------------------------------------------------- metadata lines: inputs

\* At most MaxMetaLines lines in a text.
MaxMetaLines == 2

\* U+4F5C U+8005 and "ISBN": two keys of METADATA_KEYS.
MetaKeys == {<<20316, 32773>>, <<73, 83, 66, 78>>}

\* The separators of the documentation of IsMetadataLine: U+FF1A, ':',
\* " : ", U+3000 and ' '.
MetaSeparatorForms ==
  {<<65306>>, <<58>>, <<32, 58, 32>>, <<12288>>, <<32>>}

\* U+6771 U+91CE, "9787573506078" and U+300C U+7532 (a dialogue opener).
MetaValues ==
  { <<26481, 37326>>,
    <<57, 55, 56, 55, 53, 55, 51, 53, 48, 54, 48, 55, 56>>,
    <<12300, 30002>> }

MetaLinePool32 ==
  {k \o f \o v : k \in MetaKeys, f \in MetaSeparatorForms, v \in MetaValues}
    \cup { <<>>,
           <<30002, 20057, 65306, 26481, 37326>>,  \* no key before U+FF1A
           <<22825, 27668, 24456, 22909, 25105, 20204, 20986, 21435, 29609>> }

MetaTexts ==
  {JoinLines(ls) :
     ls \in SeqsUpTo({U32ToUtf8(l) : l \in MetaLinePool32}, MaxMetaLines)}

\* One call on a text made of the lines above.
InitMeta == InitCalls({1}, MetaTexts)

SpecMeta == InitMeta /\ [][Next]_vars

\* --------------------------------------------------------- metadata lines

\* The line is a key of METADATA_KEYS, the separator f and a value that
\* starts with neither a blank nor a dialogue opener, in at most 30
\* codepoints.
IsMetadataForm(line, f) ==
  \E k \in METADATA_KEYS :
    LET n == Len(k) + Len(f) IN
    /\ StartsWith(line, k \o f)
    /\ Len(line) > n /\ Len(line) <= 30
    /\ line[n + 1] \notin DIALOG_OPENERS \cup {32, 9, 12288}

\* C27: every line of a documented form (a key, one of the separators
\* U+FF1A, ':', " : ", U+3000 or a plain ' ', and a value that does not start
\* with a dialogue opener, at most 30 codepoints) that a round of the loop
\* reads is a metadata line for IsMetadataLine.
C27_DocumentedFormsAreMetadata ==
  [][\A p \in Calls :
       (/\ StepsLine(p)
        /\ \E f \in MetaSeparatorForms :
             IsMetadataForm(lines32[p][line_no[p]], f)) =>
         /\ IsMetadataLine(lines32[p][line_no[p]])
         /\ IsMetadataLine(NextProbe(p))]_vars

\* The same for the separators other than the plain space.
ColonAndWideSpaceFormsAreMetadata ==
  [][\A p \in Calls :
       (/\ StepsLine(p)
        /\ \E f \in MetaSeparatorForms \ {<<32>>} :
             IsMetadataForm(lines32[p][line_no[p]], f)) =>
         /\ IsMetadataLine(NextProbe(p))
         /\ rule'[p] = "metadata"]_vars

\* ------------------------------------------- ExtractText (PdfiumHelper.hpp)

\* std::to_string of a positive int: its decimal digits.
RECURSIVE to_string(_)
to_string(n) ==
  IF n < 10 THEN <<48 + n>> ELSE to_string(n \div 10) \o <<48 + (n % 10)>>

\* NormalizeNewlinesInPlace: "\r\n" and '\r' become '\n'.
NormalizeNewlinesInPlace(s) ==
  Flatten([i \in 1..Len(s) |->
             IF s[i] = 13 THEN <<10>>
             ELSE IF s[i] = 10 /\ i > 1 /\ s[i - 1] = 13 THEN <<>>
             ELSE <<s[i]>>])

\* std::isspace of the "C" locale.
isspace(c) == c \in {32, 9, 10, 11, 12, 13}

\* TrimCopy drops the leading and the trailing isspace bytes.
TrimCopy(s) ==
  LET keep == {i \in 1..Len(s) : ~isspace(s[i])}
  IN  IF keep = {} THEN <<>> ELSE SubSeq(s, SetMin(keep), SetMax(keep))

\* "=== [Page i/N] ===", as ExtractText appends it for page i of N.
PageHeader(i, N) ==
  <<61, 61, 61, 32, 91, 80, 97, 103, 101, 32>> \o to_string(i) \o <<47>>
    \o to_string(N) \o <<93, 32, 61, 61, 61>>

\* What one round of the loop of ExtractText appends for page i (from 1) of
\* the document whose pages have the texts pageTexts.
ExtractPage(pageTexts, addPageHeader, i) ==
  (IF addPageHeader THEN PageHeader(i, Len(pageTexts)) \o <<10, 10>>
   ELSE <<>>)
    \o TrimCopy(NormalizeNewlinesInPlace(pageTexts[i])) \o <<10, 10>>

\* The result of ExtractText after the rounds of the pages 1..k.
ExtractPages(pageTexts, addPageHeader, k) ==
  Flatten([i \in 1..k |-> ExtractPage(pageTexts, addPageHeader, i)])

\* ExtractText without a cancel flag: all pages.
ExtractText(pageTexts, addPageHeader) ==
  ExtractPages(pageTexts, addPageHeader, Len(pageTexts))

\* ------------------------------------------------- page headers: inputs

\* Documents of up to MaxPages pages with any of the page texts, and
\* documents of ManyPages pages with the same text on every page.
MaxPages == 3
ManyPages == 11

\* Page texts as ExtractPageText returns them (well-formed UTF-8).
PageTextPool ==
  { <<>>,                                           \* a page without text
    U32ToUtf8(<<30002, 12290>>),                    \* U+7532 U+3002
    \* two blanks, U+4E59 U+4E19, "\r\n": trimmed by ExtractText
    <<32, 32>> \o U32ToUtf8(<<20057, 19993>>) \o <<13, 10>>,
    \* 9 ideographs, "\r\n", U+300C U+7532 U+FF01: leaves a quote open
    U32ToUtf8(<<22825, 27668, 24456, 22909, 25105, 20204, 20986, 21435,
                29609>>) \o <<13, 10>> \o U32ToUtf8(<<12300, 30002, 65281>>),
    U32ToUtf8(<<30002, 65292>>),                    \* ends with a comma
    U32ToUtf8(<<65288, 30002>>),                    \* a bracket left open
    <<45, 45, 45>>,                                 \* "---"
    <<61, 61, 61, 32>> \o U32ToUtf8(<<30002>>) \o <<32, 61, 61, 61>> }

PdfDocuments ==
  SeqsUpTo(PageTextPool, MaxPages)
    \cup {[i \in 1..ManyPages |-> t] : t \in PageTextPool}

PageTexts == {ExtractText(d, TRUE) : d \in PdfDocuments}

\* One call on a text written by ExtractText with addPageHeader = true.
InitPages == InitCalls({1}, PageTexts)

SpecPages == InitPages /\ [][Next]_vars

\* ----------------------------------------------------------- page headers

\* The page headers of ExtractText (ASCII: the bytes are the code points),
\* also with i > N, which ExtractText never writes.
ExtractHeaders == {PageHeader(i, n) : i, n \in 1..ManyPages}

\* The line is a page header of ExtractText.
IsExtractHeader(line) == line \in ExtractHeaders

\* The page headers among the lines of call p, and the number of them.
HeaderLines(p) == SelectSeq(lines32[p], IsExtractHeader)

\* C28: a round that reads a page header "=== [Page i/N] ===" of ExtractText
\* finds it unchanged by the repeat collapse, no divider and a page marker,
\* and pushes the pending buffer (if any) and then the header as a segment
\* of its own; no later step changes a segment already pushed; the lines
\* of the text hold the headers of the pages 1..N in this order, and so do
\* the segments when the call ends.
C28_PageHeadersAreSegments ==
  [][\A p \in Calls :
       /\ (StepsLine(p) /\ IsExtractHeader(lines32[p][line_no[p]])) =>
            LET line    == lines32[p][line_no[p]]
                flushed == IF buffer[p] = <<>> THEN segments[p]
                           ELSE Append(segments[p], buffer[p])
            IN  /\ NextStripped(p) = line
                /\ ~IsBoxDrawingLine(NextProbe(p))
                /\ IsPageMarker(NextStripped(p))
                /\ rule'[p] = "page_marker"
                /\ segments'[p] = Append(flushed, line)
                /\ buffer'[p] = <<>>
       /\ pc[p] = "loop" => IsPrefix(segments[p], segments'[p])
       /\ (pc[p] = "call" /\ pc'[p] = "loop") =>
            HeaderLines(p)' =
              [i \in 1..Len(HeaderLines(p)') |->
                 PageHeader(i, Len(HeaderLines(p)'))]
       /\ (pc[p] = "loop" /\ pc'[p] = "done") =>
            SelectSeq(segments'[p], IsExtractHeader) = HeaderLines(p)]_vars

\* A call on the text of a document of ManyPages pages has ended with the
\* header of every page among its segments, the last one "=== [Page 11/11]
\* ===", and with page text between the headers.
C28_Witness ==
  \E p \in Calls :
    /\ pc[p] = "done"
    /\ Len(HeaderLines(p)) = ManyPages
    /\ SelectSeq(segments[p], IsExtractHeader) = HeaderLines(p)
    /\ HeaderLines(p)[ManyPages] = PageHeader(ManyPages, ManyPages)
    /\ Len(segments[p]) = 2 * ManyPages

\* ------------------------- PDF extraction in a worker thread (mainwindow.cpp)

\* The variables of the calls of ReflowCjkParagraphs.
reflowVars == <<utf8Text, addPdfPageHeader, compact, pc, lines32, line_no,
                segments, buffer, dialog_state, rule, result>>

\* The page texts and the documents of the extraction: up to MaxPages pages.
WorkerPageTexts ==
  {<<>>, U32ToUtf8(<<30002, 12290>>), U32ToUtf8(<<20057, 19993>>)}

WorkerDocuments == SeqsUpTo(WorkerPageTexts, MaxPages)

\* PdfExtractWorker::requestCancel stores true in the cancel flag.
PdfExtractWorker_requestCancel(w) == [w EXCEPT !.m_cancelFlag = TRUE]

\* MainWindow::startPdfExtraction: a worker for the file (its pages are
\* pageTexts) is made and moved to a thread, the Cancel button is shown and
\* the thread starts PdfExtractWorker::process, which enters ExtractText.
\* The texts are well-formed UTF-8, which QString::fromUtf8 and toUtf8
\* carry unchanged.
startPdfExtraction ==
  /\ pdfExtraction.pc = "idle"
  /\ \E d \in WorkerDocuments, h \in BOOLEAN :
       pdfExtraction' =
         [pc |-> "extract", m_pdfWorker |-> TRUE, m_cancelFlag |-> FALSE,
          pageTexts |-> d, m_addPdfPageHeader |-> h, i |-> 0,
          textUtf8 |-> <<>>, progressChanged |-> 0,
          signal |-> "none", text |-> <<>>,
          cancelClicked |-> FALSE,
          statusBar |-> "", tbSource |-> <<>>]
  /\ UNCHANGED <<reflowVars, hasUnclosedBracket, batch>>

\* One round of the loop of ExtractText in the worker thread: the cancel
\* flag is not set, the page is appended and the progress callback emits
\* progressChanged.
ExtractTextRound ==
  LET w == pdfExtraction IN
  /\ w.pc = "extract"
  /\ w.i < Len(w.pageTexts)
  /\ ~w.m_cancelFlag
  /\ pdfExtraction' =
       [w EXCEPT !.textUtf8 = @ \o ExtractPage(w.pageTexts,
                                               w.m_addPdfPageHeader, w.i + 1),
                 !.i = @ + 1,
                 !.progressChanged = @ + 1]
  /\ UNCHANGED <<reflowVars, hasUnclosedBracket, batch>>

\* ExtractText returns: all pages are done, or the cancel flag is set at
\* the top of a round.
ExtractTextReturns ==
  LET w == pdfExtraction IN
  /\ w.pc = "extract"
  /\ w.i >= Len(w.pageTexts) \/ w.m_cancelFlag
  /\ pdfExtraction' = [w EXCEPT !.pc = "check"]
  /\ UNCHANGED <<reflowVars, hasUnclosedBracket, batch>>

\* The end of PdfExtractWorker::process: cancelled(partial) if the cancel
\* flag is set, finished(text) otherwise.
process_emits ==
  LET w == pdfExtraction IN
  /\ w.pc = "check"
  /\ pdfExtraction' =
       [w EXCEPT !.pc = "emitted",
                 !.signal = IF w.m_cancelFlag THEN "cancelled" ELSE "finished",
                 !.text = w.textUtf8]
  /\ UNCHANGED <<reflowVars, hasUnclosedBracket, batch>>

\* The Cancel button is visible: from startPdfExtraction to the slot of the
\* worker's signal, and from the start of a batch to onBatchFinished.
CancelButtonShown ==
  \/ pdfExtraction.m_pdfWorker
  \/ batch.m_batchWorker /\ batch.buttonShown

\* MainWindow::onCancelPdfClicked: with a PDF worker it shows a message
\* (the call of requestCancel is commented out); otherwise, with a batch
\* worker, it calls BatchWorker::requestCancel.
onCancelPdfClicked ==
  /\ CancelButtonShown
  /\ IF pdfExtraction.m_pdfWorker
     THEN /\ pdfExtraction' =
               [pdfExtraction EXCEPT
                  !.statusBar = "Cancelling PDF extraction...",
                  !.cancelClicked = @ \/ pdfExtraction.pc \in {"extract", "check"}]
          /\ UNCHANGED batch
     ELSE /\ batch' = [batch EXCEPT !.m_cancelRequested = TRUE,
                                    !.statusBar = "Cancelling batch..."]
          /\ UNCHANGED pdfExtraction
  /\ UNCHANGED <<reflowVars, hasUnclosedBracket>>

\* MainWindow::onPdfExtractionFinished: the text, reflowed if Auto Reflow
\* is checked, goes to tbSource; the button is hidden and the thread and
\* the worker are cleaned up.
onPdfExtractionFinished(autoReflow, compactPdfText) ==
  LET w == pdfExtraction IN
  pdfExtraction' =
    [w EXCEPT !.pc = "idle", !.m_pdfWorker = FALSE,
              !.tbSource =
                 IF w.text = <<>> THEN @
                 ELSE IF autoReflow
                      THEN ReflowCjkParagraphs(w.text, w.m_addPdfPageHeader,
                                               compactPdfText)
                      ELSE w.text,
              !.statusBar = "PDF loaded"]

\* MainWindow::onPdfExtractionCancelled: the partial text goes to tbSource.
onPdfExtractionCancelled ==
  LET w == pdfExtraction IN
  pdfExtraction' =
    [w EXCEPT !.pc = "idle", !.m_pdfWorker = FALSE,
              !.tbSource = IF w.text = <<>> THEN @ ELSE w.text,
              !.statusBar = "PDF loading cancelled"]

\* The worker's signal reaches the slot connected to it in the GUI thread.
PdfSignalDelivered ==
  /\ pdfExtraction.pc = "emitted"
  /\ IF pdfExtraction.signal = "finished"
     THEN \E autoReflow, compactPdfText \in BOOLEAN :
            onPdfExtractionFinished(autoReflow, compactPdfText)
     ELSE onPdfExtractionCancelled
  /\ UNCHANGED <<reflowVars, hasUnclosedBracket, batch>>

NextPdf ==
  \/ startPdfExtraction
  \/ ExtractTextRound
  \/ ExtractTextReturns
  \/ process_emits
  \/ onCancelPdfClicked
  \/ PdfSignalDelivered

\* The application with no call of ReflowCjkParagraphs of its own.
InitPdf == InitCalls({}, {})

SpecPdf == InitPdf /\ [][NextPdf]_vars

\* C29: once the user has clicked Cancel while the worker of a PDF
\* extraction runs, the worker's cancel flag is set, ExtractText appends no
\* further page, and the signal the worker emits is cancelled with the
\* text extracted so far.
C29_CancelClickCancelsExtraction ==
  [][LET w == pdfExtraction
         v == pdfExtraction'
     IN  (v.m_pdfWorker /\ v.cancelClicked) =>
           /\ v.m_cancelFlag
           /\ (w.m_pdfWorker /\ w.cancelClicked) => v.i = w.i
           /\ v.pc = "emitted" =>
                /\ v.signal = "cancelled"
                /\ v.text = ExtractPages(v.pageTexts, v.m_addPdfPageHeader,
                                         v.i)]_vars

\* What the code does: no step sets the cancel flag of the PDF worker, and
\* the worker never emits cancelled.
PdfCancelFlagNeverSet ==
  pdfExtraction.m_pdfWorker =>
    /\ ~pdfExtraction.m_cancelFlag
    /\ pdfExtraction.signal # "cancelled"

\* ------------------------------ batch conversion (batchworker.cpp)

\* At most MaxFiles files in the list of a batch.
MaxFiles == 2

\* The files of a batch: a text file, a path that does not exist, a file
\* whose conversion throws, and PDF files of 0, 1 and 2 pages.
BatchFiles ==
  {[kind |-> k, pageTexts |-> <<>>] : k \in {"txt", "missing", "throws"}}
    \cup {[kind |-> "pdf", pageTexts |-> d] :
            d \in SeqsUpTo({U32ToUtf8(<<30002, 12290>>)}, 2)}

\* A signal of the worker: log(text), progress(idx, total), error(msg of
\* file idx) or finished(flag).
Signal(name, idx, flag, text) ==
  [name |-> name, idx |-> idx, flag |-> flag, text |-> text]

\* emit: the signal is queued for the slots in the GUI thread.
emit(b, sig) == [b EXCEPT !.signals = Append(@, sig)]

\* MainWindow::startBatchProcess with a file list that is not empty: the
\* worker is made and moved to a thread, the Cancel button is shown and the
\* thread starts BatchWorker::process.
startBatchProcess ==
  /\ batch.pc = "idle"
  /\ \E fs \in SeqsUpTo(BatchFiles, MaxFiles) \ {<<>>},
        h, autoReflow, compactPdf \in BOOLEAN :
       batch' =
         [pc |-> "started", m_batchWorker |-> TRUE, buttonShown |-> TRUE,
          m_cancelRequested |-> FALSE, m_files |-> fs,
          m_addPdfPageHeader |-> h, m_autoReflowPdf |-> autoReflow,
          m_compactPdf |-> compactPdf,
          i |-> 0, page |-> 0, cancelFlag |-> FALSE, rawText |-> <<>>,
          signals |-> <<>>, delivered |-> 0, written |-> <<>>,
          statusBar |-> "Starting batch conversion..."]
  /\ UNCHANGED <<reflowVars, hasUnclosedBracket, pdfExtraction>>

\* BatchWorker::process up to the loop: an empty list ends the run.
process_enters ==
  LET b == batch IN
  /\ b.pc = "started"
  /\ batch' = IF Len(b.m_files) = 0
              THEN [emit(b, Signal("finished", 0, FALSE, ""))
                      EXCEPT !.pc = "emitted"]
              ELSE [b EXCEPT !.pc = "top"]
  /\ UNCHANGED <<reflowVars, hasUnclosedBracket, pdfExtraction>>

\* The loop is over: finished(false).
process_loop_ends ==
  LET b == batch IN
  /\ b.pc = "top"
  /\ b.i >= Len(b.m_files)
  /\ batch' = [emit(b, Signal("finished", 0, FALSE, ""))
                 EXCEPT !.pc = "emitted"]
  /\ UNCHANGED <<reflowVars, hasUnclosedBracket, pdfExtraction>>

\* The top of a round finds the cancel request: log and finished(true).
process_sees_cancel ==
  LET b == batch IN
  /\ b.pc = "top"
  /\ b.i < Len(b.m_files)
  /\ b.m_cancelRequested
  /\ batch' = [emit(emit(b, Signal("log", 0, FALSE, "Batch cancelled.")),
                    Signal("finished", 0, TRUE, ""))
                 EXCEPT !.pc = "emitted"]
  /\ UNCHANGED <<reflowVars, hasUnclosedBracket, pdfExtraction>>

\* A round for a path that does not exist: log, progress, next round.
process_file_not_found ==
  LET b == batch IN
  /\ b.pc = "top"
  /\ b.i < Len(b.m_files)
  /\ ~b.m_cancelRequested
  /\ b.m_files[b.i + 1].kind = "missing"
  /\ batch' = [emit(emit(b, Signal("log", b.i + 1, FALSE, "File not found.")),
                    Signal("progress", b.i + 1, FALSE, ""))
                 EXCEPT !.i = @ + 1]
  /\ UNCHANGED <<reflowVars, hasUnclosedBracket, pdfExtraction>>

\* A round enters processOneFile; for a PDF file processPdf logs and
\* enters extractPdfTextBlocking, whose cancel flag is a local.
process_starts_file ==
  LET b == batch IN
  /\ b.pc = "top"
  /\ b.i < Len(b.m_files)
  /\ ~b.m_cancelRequested
  /\ b.m_files[b.i + 1].kind # "missing"
  /\ batch' =
       IF b.m_files[b.i + 1].kind = "pdf"
       THEN [emit(b, Signal("log", b.i + 1, FALSE, "Extracting PDF text..."))
               EXCEPT !.pc = "pdf", !.page = 0, !.cancelFlag = FALSE,
                      !.rawText = <<>>]
       ELSE [b EXCEPT !.pc = "file"]
  /\ UNCHANGED <<reflowVars, hasUnclosedBracket, pdfExtraction>>

\* processOneFile for a text file ends: the output is written and logged,
\* or the conversion throws and process emits error; then progress.
process_file_done ==
  LET b == batch
      idx == b.i + 1
  IN
  /\ b.pc = "file"
  /\ batch' =
       [emit(IF b.m_files[idx].kind = "throws"
             THEN emit(b, Signal("error", idx, FALSE, "Error"))
             ELSE emit([b EXCEPT !.written = Append(@, idx)],
                       Signal("log", idx, FALSE, "Done.")),
             Signal("progress", idx, FALSE, ""))
          EXCEPT !.pc = "top", !.i = @ + 1]
  /\ UNCHANGED <<reflowVars, hasUnclosedBracket, pdfExtraction>>

\* One round of the loop of ExtractText inside extractPdfTextBlocking: the
\* page is appended, and the progress callback sets the local cancel flag
\* if isCancelled() is true.
extractPdfTextBlocking_round ==
  LET b == batch
      d == b.m_files[b.i + 1].pageTexts
  IN
  /\ b.pc = "pdf"
  /\ b.page < Len(d)
  /\ ~b.cancelFlag
  /\ batch' = [b EXCEPT !.page = @ + 1,
                        !.cancelFlag = b.m_cancelRequested]
  /\ UNCHANGED <<reflowVars, hasUnclosedBracket, pdfExtraction>>

\* ExtractText returns and extractPdfTextBlocking returns nothing if
\* cancelled or empty, the text (reflowed if asked for) otherwise.
extractPdfTextBlocking_returns ==
  LET b == batch
      d == b.m_files[b.i + 1].pageTexts
      textUtf8 == ExtractPages(d, b.m_addPdfPageHeader, b.page)
  IN
  /\ b.pc = "pdf"
  /\ b.page >= Len(d) \/ b.cancelFlag
  /\ batch' =
       [b EXCEPT !.pc = "pdf_check",
                 !.rawText =
                    IF b.m_cancelRequested \/ b.cancelFlag THEN <<>>
                    ELSE IF textUtf8 = <<>> THEN <<>>
                    ELSE IF b.m_autoReflowPdf
                         THEN ReflowCjkParagraphs(textUtf8,
                                                  b.m_addPdfPageHeader,
                                                  b.m_compactPdf)
                         ELSE textUtf8]
  /\ UNCHANGED <<reflowVars, hasUnclosedBracket, pdfExtraction>>

\* The rest of processPdf: cancelled, empty, or converted and written; then
\* progress.
processPdf_ends ==
  LET b == batch
      idx == b.i + 1
  IN
  /\ b.pc = "pdf_check"
  /\ batch' =
       [emit(IF b.m_cancelRequested
             THEN emit(b, Signal("log", idx, FALSE,
                                 "Cancelled during PDF extraction."))
             ELSE IF b.rawText = <<>>
             THEN emit(b, Signal("log", idx, FALSE, "Empty or non-text PDF."))
             ELSE emit([b EXCEPT !.written = Append(@, idx)],
                       Signal("log", idx, FALSE, "Done.")),
             Signal("progress", idx, FALSE, ""))
          EXCEPT !.pc = "top", !.i = @ + 1]
  /\ UNCHANGED <<reflowVars, hasUnclosedBracket, pdfExtraction>>

\* The next queued signal reaches its slot in the GUI thread:
\* onBatchProgress, onBatchError (hides the Cancel button), onBatchFinished
\* (hides it too); log goes to the preview.
BatchSignalDelivered ==
  LET b == batch IN
  /\ b.m_batchWorker
  /\ b.delivered < Len(b.signals)
  /\ LET sig == b.signals[b.delivered + 1] IN
     batch' =
       [b EXCEPT !.delivered = @ + 1,
                 !.buttonShown = @ /\ sig.name \notin {"error", "finished"},
                 !.statusBar =
                    IF sig.name = "progress" THEN "Processing..."
                    ELSE IF sig.name = "error" THEN sig.text
                    ELSE IF sig.name = "finished"
                    THEN (IF sig.flag THEN "Batch cancelled."
                          ELSE "Batch completed.")
                    ELSE @]
  /\ UNCHANGED <<reflowVars, hasUnclosedBracket, pdfExtraction>>

\* MainWindow::onBatchThreadFinished: the thread has quit after finished
\* and all signals are delivered; the pointers are reset.
onBatchThreadFinished ==
  LET b == batch IN
  /\ b.pc = "emitted"
  /\ b.delivered = Len(b.signals)
  /\ batch' = [b EXCEPT !.pc = "idle", !.m_batchWorker = FALSE]
  /\ UNCHANGED <<reflowVars, hasUnclosedBracket, pdfExtraction>>

NextBatch ==
  \/ startBatchProcess
  \/ process_enters
  \/ process_loop_ends
  \/ process_sees_cancel
  \/ process_file_not_found
  \/ process_starts_file
  \/ process_file_done
  \/ extractPdfTextBlocking_round
  \/ extractPdfTextBlocking_returns
  \/ processPdf_ends
  \/ onCancelPdfClicked
  \/ BatchSignalDelivered
  \/ onBatchThreadFinished

InitBatch == InitCalls({}, {})

SpecBatch == InitBatch /\ [][NextBatch]_vars

\* The worker of the batch is inside BatchWorker::process.
BatchRuns == batch.pc \in {"started", "top", "file", "pdf", "pdf_check"}

\* The finished signals among the signals emitted so far.
FinishedSignals(b) ==
  SelectSeq(b.signals, LAMBDA sig : sig.name = "finished")

\* C30: a run of BatchWorker::process emits no finished before it ends and
\* ends by emitting finished once, as its last signal, with the flag true
\* exactly if requestCancel() was called before; after a call of
\* requestCancel() no round for a further file is started.
C30_FinishedReportsCancel ==
  [][LET b == batch
         c == batch'
     IN  /\ BatchRuns => FinishedSignals(b) = <<>>
         /\ (BatchRuns /\ c.pc = "emitted") =>
              /\ Len(FinishedSignals(c)) = 1
              /\ c.signals[Len(c.signals)].name = "finished"
              /\ c.signals[Len(c.signals)].flag = b.m_cancelRequested
         /\ (b.pc = "emitted" /\ c.pc = "emitted") => c.signals = b.signals
         /\ (b.pc = "top" /\ b.m_cancelRequested) =>
              c.pc \notin {"file", "pdf"} /\ c.i = b.i]_vars

\* What the code does: finished is emitted once, as the last signal, and
\* no round starts after a cancel request, but the flag is true only if
\* the request was seen at the top of a round: finished(true) implies a
\* request, not the converse.
FinishedOnceAndCancelStopsRounds ==
  [][LET b == batch
         c == batch'
     IN  /\ BatchRuns => FinishedSignals(b) = <<>>
         /\ (BatchRuns /\ c.pc = "emitted") =>
              /\ Len(FinishedSignals(c)) = 1
              /\ c.signals[Len(c.signals)].name = "finished"
              /\ c.signals[Len(c.signals)].flag =>
                   b.m_cancelRequested /\ b.i < Len(b.m_files)
         /\ (b.pc = "emitted" /\ c.pc = "emitted") => c.signals = b.signals
         /\ (b.pc = "top" /\ b.m_cancelRequested) =>
              c.pc \notin {"file", "pdf"} /\ c.i = b.i]_vars
=============================================================================
